---- MODULE Spec2Model ----
(***************************************************************************)
(* The two-tier cache (CacheManager: go-cache local tier + Redis remote    *)
(* tier) and the hourly rate limiter built on it.                          *)
(*                                                                         *)
(* Time is counted in units of 30 seconds, the largest unit that divides   *)
(* every duration the code uses (30 s warming TTL, 5 min go-cache default  *)
(* and backfill TTL, 1 h rate-limit TTL and hour bucket).                  *)
(***************************************************************************)
EXTENDS Integers, Sequences, FiniteSets, TLC

(* ------------------------------ bounds -------------------------------- *)

\* Serving goroutines per process.
NumThreads == 2
\* Increment calls / admission checks issued in a run.
MaxCalls == 4
\* The wall clock when the run starts and the last instant explored
\* (30 s units; the first hour boundary, 120, lies between them).
StartTime == 107
MaxTime == 121
\* How long before MaxTime the runs of the cache calls start, and the number
\* of Get, Set, Delete and PublishUpdate calls issued in such a run.
CacheSpan == 2
MaxCacheCalls == 2
\* GetTopClients requests served in a run.
MaxTopCalls == 2
\* Calls of the manager followed from entry to return in a run.
MaxLiveCalls == 2
\* Clients registered in a run, the longest client id (in runes), and the
\* direct evaluations of GetShardForClient in a run.
MaxClients == 2
IdLen == 2
MaxShardCalls == 2
\* BroadcastUpdate calls made.
MaxBroadcasts == 2
\* Requests to the protected routes.
MaxRequests == 2

(* ------------------------- program constants -------------------------- *)

\* 30*time.Second, WarmUsageCache's TTL.
WarmTTL == 1
\* cache.New(5*time.Minute, ...): go-cache's default expiration.
DefaultExpiration == 10
\* 5*time.Minute, the TTL Get gives a backfilled local copy.
BackfillTTL == 10
\* time.Hour: the rate limiter's TTL and the width of its "2006-01-02-15" bucket.
Hour == 120
\* 5*time.Minute: the age from which GetTopClients treats a cached response as stale.
StaleAfter == 10
\* configs.AppConfig.RateLimitPerHour (an already parsed integer; the spec's test uses 3).
RateLimitPerHour == 2

Procs == {"p1", "p2"}
Tids == 1..NumThreads
Threads == Procs \X Tids
NoThread == <<"none", 0>>
Clients == {"c1"}
\* The WebSocket connections, numbered in the order of their requests.
Conns == {1, 2}
Msgs == 1..MaxBroadcasts

(* ------------------------------ values -------------------------------- *)

\* A Go value held by the local tier (interface{}), and a text held by Redis.
\* kind "int64": an int64 counter; "obj": a struct/map/slice JSON can encode;
\* "chan": a value json.Marshal rejects; "bytes": a []byte holding the JSON
\* text of object n (what Get backfills); "bytesnum": a []byte holding a number.
GoInt(n) == [kind |-> "int64", n |-> n]
GoObj(n) == [kind |-> "obj", n |-> n]
GoBad == [kind |-> "chan", n |-> 0]
NoValue == [kind |-> "none", n |-> 0]

\* Redis texts: "num" a decimal integer (also the JSON of an int64), "jobj" the
\* JSON of object n, "jstr" a JSON string (the base64 of a []byte).
TextNum(n) == [kind |-> "num", n |-> n]
TextObj(n) == [kind |-> "jobj", n |-> n]

\* json.Marshal: ok is FALSE for a value JSON cannot encode; a []byte is
\* encoded as a base64 JSON string ("jstr": of the JSON of object n,
\* "jstrnum": of the number n), not as the JSON text it holds.
Marshal(v) ==
    CASE v.kind = "int64" -> [ok |-> TRUE, text |-> TextNum(v.n)]
      [] v.kind = "obj" -> [ok |-> TRUE, text |-> TextObj(v.n)]
      [] v.kind = "bytes" -> [ok |-> TRUE, text |-> [kind |-> "jstr", n |-> v.n]]
      [] v.kind = "bytesnum" -> [ok |-> TRUE, text |-> [kind |-> "jstrnum", n |-> v.n]]
      [] OTHER -> [ok |-> FALSE, text |-> [kind |-> "none", n |-> 0]]

\* json.Unmarshal(data, target) for a target of Go type tkind ("obj": a struct
\* or slice, "int64", "bytes": a []byte): fails when the JSON text is of
\* another JSON type; a JSON string is base64-decoded into a []byte target.
Unmarshal(text, tkind) ==
    CASE text.kind = "jobj" /\ tkind = "obj" -> [ok |-> TRUE, v |-> GoObj(text.n)]
      [] text.kind = "num" /\ tkind = "int64" -> [ok |-> TRUE, v |-> GoInt(text.n)]
      [] text.kind = "jstr" /\ tkind = "bytes" -> [ok |-> TRUE, v |-> [kind |-> "bytes", n |-> text.n]]
      [] text.kind = "jstrnum" /\ tkind = "bytes" -> [ok |-> TRUE, v |-> [kind |-> "bytesnum", n |-> text.n]]
      [] OTHER -> [ok |-> FALSE, v |-> NoValue]

\* The []byte Redis's Get returns for a text.
BytesOf(text) ==
    IF text.kind = "num" THEN [kind |-> "bytesnum", n |-> text.n]
    ELSE [kind |-> "bytes", n |-> text.n]

\* The Go type a caller passes as Get's target for a stored value.
TargetOf(v) == IF v.kind = "int64" THEN "int64" ELSE "obj"

(* ------------------------------- keys --------------------------------- *)

\* fmt.Sprintf("rate_limit:%s:%s", clientID, time.Now().Format("2006-01-02-15"))
Bucket(t) == t \div Hour
RateKey(c, t) == [ns |-> "rate_limit", id |-> c, hr |-> Bucket(t)]
RateKeys == {[ns |-> "rate_limit", id |-> c, hr |-> h] : c \in Clients, h \in 0..(MaxTime \div Hour)}
TopKey == [ns |-> "usage:top", id |-> "last24h", hr |-> 0]
StatsKey == [ns |-> "system", id |-> "stats", hr |-> 0]
CounterKey == [ns |-> "counter:total", id |-> "c1", hr |-> 0]
CacheKeys == {TopKey, StatsKey}
\* fmt.Sprintf("usage:daily:%s", id) and fmt.Sprintf("client:%s", id)
DailyKey(c) == [ns |-> "usage:daily", id |-> c, hr |-> 0]
ClientKey(c) == [ns |-> "client", id |-> c, hr |-> 0]
ClientKeys == {DailyKey(c) : c \in Clients} \cup {ClientKey(c) : c \in Clients}
Keys == RateKeys \cup CacheKeys \cup {CounterKey} \cup ClientKeys

(* ------------------------------ entries ------------------------------- *)

\* exp = 0: the entry never expires (go-cache's Expiration 0, a Redis key
\* without TTL). born and ttl are history: when, and with which ttl, the
\* Set that produced the value was called (0, 0 for a counter made by
\* Increment); a backfilled local copy inherits them from the remote entry.
Absent == [v |-> NoValue, exp |-> 0, born |-> 0, ttl |-> 0]
Entry(v, e, b, d) == [v |-> v, exp |-> e, born |-> b, ttl |-> d]
Has(store, k) == store[k] # Absent

\* The value of a counter in a store (0 when the key is absent).
CountIn(store, k) == IF Has(store, k) THEN store[k].v.n ELSE 0


VARIABLES
    now,          \* the wall clock, in 30 s units
    redisOk,      \* the Redis server answers (FALSE: every call to it fails)
    redisClient,  \* [Procs -> BOOLEAN]: cm.redisClient != nil
    started,      \* [Procs -> BOOLEAN]: the process has built its CacheManager
    redis,        \* [Keys -> entry]: the remote tier
    localCache,   \* [Procs -> [Keys -> entry]]: each process's go-cache
    mu,           \* [Procs -> thread]: the holder of cm.mu's write lock
    pc,           \* [Threads -> position of the goroutine]
    fr,           \* [Threads -> the goroutine's locals]
    calls,        \* calls issued so far (bounds the run)
    ninc,         \* [Procs -> [Keys -> Nat]]: direct Increment calls that returned no error
    pre,          \* [Keys -> Int]: the counter's value before the run's calls
    hist,         \* admission checks completed, per rate key, in order
    res,          \* the result of the last completed cache call
    prev,         \* the result of the call before it
    inbox,        \* [Procs -> Seq(event)]: "usage_updates" messages in flight to each subscriber
    pubSub,       \* [Procs -> Nat]: subscriptions (and listener goroutines) the process has opened
    dbOk,         \* the database answers the top-clients query (FALSE: the query fails)
    rq,           \* [Threads -> the locals of the GetTopClients request the goroutine serves]
    bg,           \* [Procs -> Seq(refresh)]: refreshTopClientsCache goroutines in flight
    fetched,      \* the aggregate queries executed so far, in order
    AppConfig,    \* configs.AppConfig: whether LoadConfig ran, SHARD_COUNT's text, ShardCount
    db,           \* the database's tables: clients and shard_mappings
    http,         \* the last HTTP response of the registration and authentication paths
    issued,       \* the (client_id, api_key) pairs POST /api/register has returned
    shardCalls,   \* the evaluations of GetShardForClient so far
    rlock,        \* [Procs -> SUBSET Threads]: the holders of cm.mu's read lock
    wiring,       \* which WebSocketHandler the build holds, and whether RunHub is started
    loops,        \* the hub loops running (RunHub / listenForBroadcasts goroutines)
    clients,      \* h.clients: the connections the hub holds
    conn,         \* [Conns -> the HandleConnections goroutine, its socket and its peer]
    bsend,        \* [Msgs -> the BroadcastUpdate call that sends the message]
    hlog,         \* what the hub loops did, in order
    blacklist,    \* [Tokens -> Nat]: the rows of jwt_blacklist per token
    revoked,      \* the tokens for which RevokeToken has returned nil
    reqs,         \* the requests to the protected routes so far, in order
    counters      \* per client: the hourly rate counter and the usage counter

\* The invalidation channel's state and the top-clients handler's state.
subVars == <<inbox, pubSub>>
topVars == <<dbOk, rq, bg, fetched>>
\* The configuration, the tables and the registration path's history.
regVars == <<AppConfig, db, http, issued, shardCalls>>

\* The WebSocket handler's state.
wsVars == <<wiring, loops, clients, conn, bsend, hlog>>
\* The token blacklist and the protected routes' history.
authVars == <<blacklist, revoked, reqs, counters>>
extVars == <<wsVars, authVars>>

vars == <<now, redisOk, redisClient, started, redis, localCache, mu, pc, fr,
          calls, ninc, pre, hist, res, prev, inbox, pubSub, dbOk, rq, bg, fetched,
          AppConfig, db, http, issued, shardCalls, rlock,
          wiring, loops, clients, conn, bsend, hlog,
          blacklist, revoked, reqs, counters>>

ProcOf(th) == th[1]
\* The counters admission checks can run against: the shared Redis one, or
\* the local one of a process without a Redis client.
CounterIds == {"redis"} \cup Procs
CounterId(p) == IF redisClient[p] THEN "redis" ELSE p

\* before, reach: history of an admission check (the counter's value and the
\* server's state when its Increment ran).
NoFrame == [op |-> "none", key |-> CounterKey, cur |-> 0, cnt |-> 0, err |-> FALSE,
            before |-> 0, reach |-> TRUE]
\* The result of a cache call, with what held when it ran: lhit/rhit (the
\* key was live in the caller's local tier / in Redis), client and reach (the
\* caller has a Redis client / the server answered), rtext (the text Redis
\* held), born and ottl (when and with which ttl the value found was Set),
\* bttl (the TTL of the local copy a backfill made).
NoRes == [op |-> "none", p |-> "p1", k |-> CounterKey, v |-> NoValue, ttl |-> 0,
          tk |-> "obj", found |-> FALSE, err |-> FALSE, tier |-> "none",
          lhit |-> FALSE, rhit |-> FALSE, client |-> FALSE, reach |-> FALSE,
          rtext |-> [kind |-> "none", n |-> 0], born |-> 0, ottl |-> 0, bttl |-> 0]
NoPrev == [op |-> "none", p |-> "p1", k |-> CounterKey, v |-> NoValue, lhit |-> FALSE]
PrevOf(r) == [op |-> r.op, p |-> r.p, k |-> r.k, v |-> r.v, lhit |-> r.lhit]

\* A process holds one subscription (opened by initialize) exactly when it
\* holds a Redis client; no message is in flight.
NoMessages ==
    /\ inbox = [p \in Procs |-> <<>>]
    /\ pubSub = [p \in Procs |-> IF redisClient[p] THEN 1 ELSE 0]

\* The locals of a goroutine that serves no GetTopClients request, and the
\* history of its last one: st ("none", "open", "done"), path (what the
\* cache read led to: "fresh", "stale", "miss"), cached (the query whose
\* result the cache returned, -1 none, 0 the warming placeholder), nq (the
\* queries the request made itself), stored (the query whose result it
\* stored through Set, -1 none), status and body (the response: the HTTP
\* status and the query whose result it carries), failed (a query of the
\* request failed).
\* cerr: a cache call of the request returned an error.
NoRequest == [st |-> "none", path |-> "none", cached |-> -1, nq |-> 0, stored |-> -1,
              status |-> 0, body |-> -1, failed |-> FALSE, cerr |-> FALSE]

\* No GetTopClients request is being served and no query has been made.
HandlerIdle ==
    /\ dbOk = TRUE
    /\ rq = [th \in Threads |-> NoRequest]
    /\ bg = [p \in Procs |-> <<>>]
    /\ fetched = <<>>

\* The text of an environment variable: unset (or empty), a decimal number,
\* or text strconv.Atoi rejects.
EnvUnset == [kind |-> "unset", n |-> 0]
EnvJunk == [kind |-> "junk", n |-> 0]
EnvNum(n) == [kind |-> "digits", n |-> n]

\* An API key in one of its three forms: the uuid itself, its bcrypt hash,
\* its AES-CFB encryption in base64.
NoKey == [alg |-> "none", of |-> "none"]

\* No response yet.
NoHttp == [op |-> "none", status |-> 0, client_id |-> <<>>, api_key |-> NoKey,
           panic |-> FALSE]

\* No goroutine holds cm.mu's read lock.
NoReaders == rlock = [p \in Procs |-> {}]

\* LoadConfig has not run, the tables are empty, nothing was registered.
NoRegistrations ==
    /\ AppConfig = [loaded |-> FALSE, env |-> EnvUnset, ShardCount |-> 0]
    /\ db = [clients |-> {}, shard_mappings |-> {}]
    /\ http = NoHttp
    /\ issued = {}
    /\ shardCalls = {}

\* A connection before its GET /ws: st is the position of its
\* HandleConnections goroutine, closed whether ws.Close() has run, alive
\* whether the peer still reads what is written to it.
NoConn == [st |-> "none", closed |-> FALSE, alive |-> TRUE]

\* An entry of hlog: what a hub loop did (ev) for connection c or message m;
\* ok the outcome of a write; was, before, set: whether c was in h.clients,
\* the set before (for "done": when the range started) and after; closed:
\* the socket's state after.
\* No WebSocket traffic: the first handler of the file, no hub loop.
NoSockets ==
    /\ wiring = [impl |-> "RunHub", runHub |-> 0]
    /\ loops = <<>>
    /\ clients = {}
    /\ conn = [c \in Conns |-> NoConn]
    /\ bsend = [m \in Msgs |-> "idle"]
    /\ hlog = <<>>

\* The registered clients of a run: "0" restricted to one address, "1" with
\* no whitelist; and the addresses requests come from.
AuthClients == {<<48>>, <<49>>}
IPs == {"10.0.0.1", "10.0.0.2"}

\* A JWT: the client of its claims, and whether jwt.ParseWithClaims accepts it
\* (signed with JWTSecret by HMAC and not past its exp) or not.
Tokens == {[client_id |-> id, kind |-> k] : id \in AuthClients, k \in {"valid"}}
              \cup {[client_id |-> <<48>>, kind |-> "invalid"]}
NoToken == [client_id |-> <<>>, kind |-> "none"]

\* No token is revoked and no request has reached the protected routes.
NoTokens ==
    /\ blacklist = [t \in Tokens |-> 0]
    /\ revoked = {}
    /\ reqs = <<>>
    /\ counters = [id \in AuthClients |-> [rate |-> 0, usage |-> 0]]

(* -------------------------- the stores' clocks ------------------------- *)

\* go-cache: an item is expired when time.Now().UnixNano() > item.Expiration.
LocalExpired(e, t) == e.exp > 0 /\ t > e.exp
\* Redis: a key with a TTL is gone once the TTL has run out.
RedisExpired(e, t) == e.exp > 0 /\ t >= e.exp

\* go-cache's Get: the item, unless it is missing or expired.
LocalGet(store, k, t) == IF LocalExpired(store[k], t) THEN Absent ELSE store[k]
\* Redis GET: the key, unless it is missing or its TTL has run out.
RedisGet(store, k, t) == IF RedisExpired(store[k], t) THEN Absent ELSE store[k]

\* The duration stored as the item's expiry without adding the current time.
LocalSetRelative(store, k, v, d, t) ==
    LET dd == IF d = 0 THEN DefaultExpiration ELSE d
    IN [store EXCEPT ![k] = Entry(v, IF dd > 0 THEN dd ELSE 0, t, d)]

\* go-cache's Set(k, x, d): d = 0 (DefaultExpiration) means the cache's
\* default, d < 0 no expiration.
LocalSet(store, k, v, d, t) ==
    LET dd == IF d = 0 THEN DefaultExpiration ELSE d
    IN [store EXCEPT ![k] = Entry(v, IF dd > 0 THEN t + dd ELSE 0, t, d)]

\* Redis SET key data [EX ttl]: a ttl <= 0 stores the key without expiry.
RedisSet(store, k, text, d, t) ==
    [store EXCEPT ![k] = Entry(text, IF d > 0 THEN t + d ELSE 0, t, d)]

\* A client-side write of the delta in place of the atomic add.
RedisIncrByOverwrite(store, k, delta) ==
    [store EXCEPT ![k] = Entry(TextNum(delta), 0, 0, 0)]

\* Redis INCRBY: one atomic add; a missing key counts from 0 and is created
\* without a TTL, an existing key keeps its TTL.
RedisIncrBy(store, k, delta) ==
    IF Has(store, k)
    THEN [store EXCEPT ![k].v = TextNum(store[k].v.n + delta)]
    ELSE [store EXCEPT ![k] = Entry(TextNum(delta), 0, 0, 0)]

(* ------------------------- CacheManager.Increment --------------------- *)

\* Increment entered without taking cm.mu.
MuFreeUnlocked(p) == TRUE

\* cm.mu.Lock(): blocks while another goroutine of the process holds cm.mu,
\* for writing or for reading.
MuFree(p) == mu[p] = NoThread /\ rlock[p] = {}

\* A remote call without a deadline: it returns only when the server answers.
RemoteCallBlocks(p) == redisOk

\* ctx, cancel := context.WithTimeout(cm.ctx, 5*time.Second): a remote call
\* returns when the server answers or when the deadline passes.
RemoteCallReturns(p) == TRUE

\* The counter kept client-side whether or not the process has a client.
AlwaysLocalFallback(p) == FALSE

\* if cm.redisClient != nil: the branch Increment takes.
RedisClientNotNil(p) == redisClient[p]

\* A goroutine calls Increment(key, 1).
IncrementCall(th, k) ==
    /\ pc[th] = "idle"
    /\ started[ProcOf(th)]
    /\ calls < MaxCalls
    /\ calls' = calls + 1
    /\ pc' = [pc EXCEPT ![th] = "inc_lock"]
    /\ fr' = [fr EXCEPT ![th] = [NoFrame EXCEPT !.op = "inc", !.key = k]]
    /\ UNCHANGED <<subVars, topVars, regVars, rlock, extVars>>
    /\ UNCHANGED <<now, redisOk, redisClient, started, redis, localCache, mu,
                   ninc, pre, hist, res, prev>>

\* cm.mu.Lock() at the head of Increment.
IncrementLock(th) ==
    /\ pc[th] = "inc_lock"
    /\ MuFree(ProcOf(th))
    /\ mu' = [mu EXCEPT ![ProcOf(th)] = th]
    /\ pc' = [pc EXCEPT ![th] = "inc_locked"]
    /\ UNCHANGED <<subVars, topVars, regVars, rlock, extVars>>
    /\ UNCHANGED <<now, redisOk, redisClient, started, redis, localCache, fr,
                   calls, ninc, pre, hist, res, prev>>

\* cm.redisClient != nil: return cm.redisClient.IncrBy(ctx, key, value).Result()
IncrementRemote(th) ==
    /\ pc[th] = "inc_locked"
    /\ RedisClientNotNil(ProcOf(th))
    /\ RemoteCallReturns(ProcOf(th))
    /\ IF redisOk
       THEN /\ redis' = RedisIncrBy(redis, fr[th].key, 1)
            /\ fr' = [fr EXCEPT ![th].cnt = redis'[fr[th].key].v.n, ![th].err = FALSE,
                                 ![th].before = CountIn(redis, fr[th].key),
                                 ![th].reach = TRUE]
       ELSE /\ redis' = redis
            /\ fr' = [fr EXCEPT ![th].cnt = 0, ![th].err = TRUE,
                                 ![th].before = CountIn(redis, fr[th].key),
                                 ![th].reach = FALSE]
    /\ pc' = [pc EXCEPT ![th] = "inc_unlock"]
    /\ UNCHANGED <<subVars, topVars, regVars, rlock, extVars>>
    /\ UNCHANGED <<now, redisOk, redisClient, started, localCache, mu,
                   calls, ninc, pre, hist, res, prev>>

\* The fallback's fetch: val, found := cm.localCache.Get(key); current = val.(int64)
IncrementLocalFetch(th) ==
    /\ pc[th] = "inc_locked"
    /\ ~RedisClientNotNil(ProcOf(th))
    /\ fr' = [fr EXCEPT ![th].cur = CountIn(localCache[ProcOf(th)], fr[th].key),
                         ![th].before = CountIn(localCache[ProcOf(th)], fr[th].key),
                         ![th].reach = redisOk]
    /\ pc' = [pc EXCEPT ![th] = "inc_fetched"]
    /\ UNCHANGED <<subVars, topVars, regVars, rlock, extVars>>
    /\ UNCHANGED <<now, redisOk, redisClient, started, redis, localCache, mu,
                   calls, ninc, pre, hist, res, prev>>

\* The fallback's store: current += value;
\* cm.localCache.Set(key, current, cache.DefaultExpiration); return current, nil
IncrementLocalStore(th) ==
    /\ pc[th] = "inc_fetched"
    /\ localCache' = [localCache EXCEPT ![ProcOf(th)] =
                         LocalSet(@, fr[th].key, GoInt(fr[th].cur + 1), 0, now)]
    /\ fr' = [fr EXCEPT ![th].cnt = fr[th].cur + 1, ![th].err = FALSE]
    /\ pc' = [pc EXCEPT ![th] = "inc_unlock"]
    /\ UNCHANGED <<subVars, topVars, regVars, rlock, extVars>>
    /\ UNCHANGED <<now, redisOk, redisClient, started, redis, mu,
                   calls, ninc, pre, hist, res, prev>>

\* defer cm.mu.Unlock() and the return to the caller.
IncrementUnlock(th) ==
    /\ pc[th] = "inc_unlock"
    /\ mu' = [mu EXCEPT ![ProcOf(th)] = NoThread]
    /\ ninc' = IF fr[th].err \/ fr[th].op # "inc" THEN ninc
               ELSE [ninc EXCEPT ![ProcOf(th)][fr[th].key] = @ + 1]
    /\ pc' = [pc EXCEPT ![th] = IF fr[th].op = "inc" THEN "idle" ELSE "chk_ret"]
    /\ fr' = IF fr[th].op = "inc" THEN [fr EXCEPT ![th] = NoFrame] ELSE fr
    /\ UNCHANGED <<subVars, topVars, regVars, rlock, extVars>>
    /\ UNCHANGED <<now, redisOk, redisClient, started, redis, localCache,
                   calls, pre, hist, res, prev>>

(* --------------- concurrent Increment calls on one counter ------------- *)

\* The processes are up, each with or without a Redis client (Ping succeeded
\* or failed at its start); the counter may already exist in Redis.
InitIncr ==
    /\ now = StartTime
    /\ redisOk = TRUE
    /\ redisClient \in [Procs -> BOOLEAN]
    /\ started = [p \in Procs |-> TRUE]
    /\ \E n \in 0..1 :
          /\ redis = [k \in Keys |-> IF k = CounterKey /\ n > 0
                                     THEN Entry(TextNum(n), 0, 0, 0) ELSE Absent]
          /\ pre = [k \in Keys |-> IF k = CounterKey THEN n ELSE 0]
    /\ localCache = [p \in Procs |-> [k \in Keys |-> Absent]]
    /\ mu = [p \in Procs |-> NoThread]
    /\ pc = [th \in Threads |-> "idle"]
    /\ fr = [th \in Threads |-> NoFrame]
    /\ calls = 0
    /\ ninc = [p \in Procs |-> [k \in Keys |-> 0]]
    /\ hist = [i \in CounterIds |-> [k \in RateKeys |-> <<>>]]
    /\ res = NoRes
    /\ prev = NoPrev
    /\ NoMessages
    /\ NoRegistrations
    /\ NoReaders
    /\ NoSockets
    /\ NoTokens
    /\ HandlerIdle

NextIncr ==
    \E th \in Threads :
        \/ IncrementCall(th, CounterKey)
        \/ IncrementLock(th)
        \/ IncrementRemote(th)
        \/ IncrementLocalFetch(th)
        \/ IncrementLocalStore(th)
        \/ IncrementUnlock(th)

SpecIncr == InitIncr /\ [][NextIncr]_vars

(* --------------------------- CacheManager.Set -------------------------- *)

\* The local write made only once the remote write has succeeded.
SetLocalAfterRemote(p, k, v, ttl) ==
    IF redisClient[p] /\ (~Marshal(v).ok \/ ~redisOk)
    THEN localCache
    ELSE [localCache EXCEPT ![p] = LocalSet(@, k, v, ttl, now)]

\* cm.localCache.Set(key, value, ttl): unconditional, before the remote write.
SetLocal(p, k, v, ttl) ==
    [localCache EXCEPT ![p] = LocalSet(@, k, v, ttl, now)]

\* The error Set returns: json.Marshal's, or the Redis call's; nil without
\* a Redis client.
SetFails(p, v) == redisClient[p] /\ (~Marshal(v).ok \/ ~redisOk)

\* cm.redisClient.Set(ctx, key, data, ttl), reached when the client exists
\* and the value was encoded.
SetRemote(p, k, v, ttl) ==
    IF redisClient[p] /\ Marshal(v).ok /\ redisOk
    THEN RedisSet(redis, k, Marshal(v).text, ttl, now)
    ELSE redis

(* -------------------------- CacheManager.Delete ------------------------ *)

\* The whole local tier emptied (go-cache's Flush) in place of one key.
LocalFlush(store, k) == [j \in Keys |-> Absent]

\* go-cache's Delete(k): removes the item; nothing happens if it is missing.
LocalDelete(store, k) == [store EXCEPT ![k] = Absent]

\* Redis DEL key: removes the key; a missing key is not an error.
RedisDel(store, k) == [store EXCEPT ![k] = Absent]

\* The error Delete returns: the Redis call's; nil without a Redis client.
DeleteFails(p) == redisClient[p] /\ ~redisOk

\* The remote tier after Delete: cm.redisClient.Del(ctx, key) with a client.
DeleteRemote(p, k) == IF redisClient[p] /\ redisOk THEN RedisDel(redis, k) ELSE redis

\* Delete(key) by a goroutine of p (cm.mu.Lock for the whole call).
DeleteCall(p, k) ==
    /\ started[p]
    /\ MuFree(p)
    /\ calls < MaxCacheCalls
    /\ calls' = calls + 1
    /\ localCache' = [localCache EXCEPT ![p] = LocalDelete(@, k)]
    /\ redis' = DeleteRemote(p, k)
    /\ res' = [NoRes EXCEPT !.op = "Delete", !.p = p, !.k = k,
                  !.err = DeleteFails(p), !.client = redisClient[p],
                  !.reach = redisOk,
                  !.lhit = (LocalGet(localCache[p], k, now) # Absent),
                  !.rhit = (RedisGet(redis, k, now) # Absent)]
    /\ prev' = PrevOf(res)
    /\ UNCHANGED <<subVars, topVars, regVars, rlock, extVars>>
    /\ UNCHANGED <<now, redisOk, redisClient, started, mu, pc, fr, ninc, pre, hist>>

\* IsAvailable(): cm.redisClient != nil.
IsAvailable(p) == redisClient[p]

(* ------------------------- time and the network ------------------------ *)

\* 30 seconds pass, between calls (a call, whose remote part is bounded by a
\* 5 s timeout, does not span a clock step). Entries whose expiry has passed
\* are dropped: every read of either store treats an expired entry as absent,
\* so dropping them when the clock moves is what the readers observe.
Tick ==
    /\ now < MaxTime
    /\ \A th \in Threads : pc[th] = "idle"
    /\ now' = now + 1
    /\ redis' = [k \in Keys |-> IF RedisExpired(redis[k], now + 1) THEN Absent ELSE redis[k]]
    /\ localCache' = [p \in Procs |-> [k \in Keys |->
                         IF LocalExpired(localCache[p][k], now + 1)
                         THEN Absent ELSE localCache[p][k]]]
    /\ prev' = PrevOf(res)
    /\ res' = [NoRes EXCEPT !.op = "tick"]
    /\ UNCHANGED <<subVars, topVars, regVars, rlock, extVars>>
    /\ UNCHANGED <<redisOk, redisClient, started, mu, pc, fr, calls, ninc, pre, hist>>

\* The Redis server becomes unreachable: calls to it fail (or time out).
RedisFail ==
    /\ redisOk
    /\ redisOk' = FALSE
    /\ UNCHANGED <<subVars, topVars, regVars, rlock, extVars>>
    /\ UNCHANGED <<now, redisClient, started, redis, localCache, mu, pc, fr,
                   calls, ninc, pre, hist, res, prev>>

\* The Redis server is reachable again.
RedisRecover ==
    /\ ~redisOk
    /\ redisOk' = TRUE
    /\ UNCHANGED <<subVars, topVars, regVars, rlock, extVars>>
    /\ UNCHANGED <<now, redisClient, started, redis, localCache, mu, pc, fr,
                   calls, ninc, pre, hist, res, prev>>

(* ------------------------- RateLimitMiddleware ------------------------- *)

\* A cache failure answered with 429 instead of c.Next().
VerdictFailClosed(err, cnt) ==
    IF err \/ cnt > RateLimitPerHour
    THEN [admit |-> FALSE, remaining |-> 0]
    ELSE [admit |-> TRUE, remaining |-> RateLimitPerHour - cnt]

\* The middleware's decision from Increment's (count, err): fail-open on an
\* error (c.Next() with no rate-limit header, remaining -1 here), 429 with
\* remaining 0 when count > limit, else c.Next() with remaining limit - count.
Verdict(err, cnt) ==
    IF err THEN [admit |-> TRUE, remaining |-> -1]
    ELSE IF cnt > RateLimitPerHour THEN [admit |-> FALSE, remaining |-> 0]
    ELSE [admit |-> TRUE, remaining |-> RateLimitPerHour - cnt]

\* The record of a completed check.
CheckRecord(th) ==
    [admit |-> Verdict(fr[th].err, fr[th].cnt).admit,
     remaining |-> Verdict(fr[th].err, fr[th].cnt).remaining,
     err |-> fr[th].err, before |-> fr[th].before, reach |-> fr[th].reach]

Recorded(th) ==
    [hist EXCEPT ![CounterId(ProcOf(th))][fr[th].key] = Append(@, CheckRecord(th))]

\* A request of client c enters the middleware (one check at a time):
\* key := "rate_limit:<c>:<hour>"; count, err := cache.Increment(key, 1)
RateLimitCall(th, c) ==
    /\ \A t \in Threads : pc[t] = "idle"
    /\ started[ProcOf(th)]
    /\ calls < MaxCalls
    /\ calls' = calls + 1
    /\ pc' = [pc EXCEPT ![th] = "inc_lock"]
    /\ fr' = [fr EXCEPT ![th] = [NoFrame EXCEPT !.op = "check", !.key = RateKey(c, now)]]
    /\ UNCHANGED <<subVars, topVars, regVars, rlock, extVars>>
    /\ UNCHANGED <<now, redisOk, redisClient, started, redis, localCache, mu,
                   ninc, pre, hist, res, prev>>

\* After Increment: err != nil -> c.Next(); count == 1 -> go on to Set;
\* otherwise decide.
RateLimitAfterIncrement(th) ==
    /\ pc[th] = "chk_ret"
    /\ IF ~fr[th].err /\ fr[th].cnt = 1
       THEN /\ pc' = [pc EXCEPT ![th] = "chk_set"]
            /\ UNCHANGED <<hist, fr>>
       ELSE /\ pc' = [pc EXCEPT ![th] = "idle"]
            /\ hist' = Recorded(th)
            /\ fr' = [fr EXCEPT ![th] = NoFrame]
    /\ UNCHANGED <<subVars, topVars, regVars, rlock, extVars>>
    /\ UNCHANGED <<now, redisOk, redisClient, started, redis, localCache, mu,
                   calls, ninc, pre, res, prev>>

\* count == 1: cache.Set(key, count, time.Hour) (its error is dropped), then
\* the decision.
RateLimitSetTTL(th) ==
    /\ pc[th] = "chk_set"
    /\ MuFree(ProcOf(th))
    /\ localCache' = SetLocal(ProcOf(th), fr[th].key, GoInt(fr[th].cnt), Hour)
    /\ redis' = SetRemote(ProcOf(th), fr[th].key, GoInt(fr[th].cnt), Hour)
    /\ pc' = [pc EXCEPT ![th] = "idle"]
    /\ hist' = Recorded(th)
    /\ fr' = [fr EXCEPT ![th] = NoFrame]
    /\ UNCHANGED <<subVars, topVars, regVars, rlock, extVars>>
    /\ UNCHANGED <<now, redisOk, redisClient, started, mu,
                   calls, ninc, pre, res, prev>>

\* The process that serves the client's requests is up, with or without a
\* Redis client; no counter exists yet.
InitRate ==
    /\ now = StartTime
    /\ redisOk \in BOOLEAN
    /\ \E b \in BOOLEAN : redisClient = [p \in Procs |-> b /\ p = "p1"]
    /\ started = [p \in Procs |-> p = "p1"]
    /\ redis = [k \in Keys |-> Absent]
    /\ pre = [k \in Keys |-> 0]
    /\ localCache = [p \in Procs |-> [k \in Keys |-> Absent]]
    /\ mu = [p \in Procs |-> NoThread]
    /\ pc = [th \in Threads |-> "idle"]
    /\ fr = [th \in Threads |-> NoFrame]
    /\ calls = 0
    /\ ninc = [p \in Procs |-> [k \in Keys |-> 0]]
    /\ hist = [i \in CounterIds |-> [k \in RateKeys |-> <<>>]]
    /\ res = NoRes
    /\ prev = NoPrev
    /\ NoMessages
    /\ NoRegistrations
    /\ NoReaders
    /\ NoSockets
    /\ NoTokens
    /\ HandlerIdle

NextRate ==
    \/ \E th \in Threads :
        \/ \E c \in Clients : RateLimitCall(th, c)
        \/ IncrementLock(th)
        \/ IncrementRemote(th)
        \/ IncrementLocalFetch(th)
        \/ IncrementLocalStore(th)
        \/ IncrementUnlock(th)
        \/ RateLimitAfterIncrement(th)
        \/ RateLimitSetTTL(th)
    \/ Tick
    \/ RedisFail
    \/ RedisRecover

SpecRate == InitRate /\ [][NextRate]_vars

(* ------------- concurrent admission checks, Redis reachable ------------ *)

\* A request of client c enters the middleware while other requests of the
\* client may be inside it, in this process or another.
ConcurrentRateLimitCall(th, c) ==
    /\ pc[th] = "idle"
    /\ started[ProcOf(th)]
    /\ calls < MaxCalls
    /\ calls' = calls + 1
    /\ pc' = [pc EXCEPT ![th] = "inc_lock"]
    /\ fr' = [fr EXCEPT ![th] = [NoFrame EXCEPT !.op = "check", !.key = RateKey(c, now)]]
    /\ UNCHANGED <<subVars, topVars, regVars, rlock, extVars>>
    /\ UNCHANGED <<now, redisOk, redisClient, started, redis, localCache, mu,
                   ninc, pre, hist, res, prev>>

\* Every process is up and holds a Redis client, the server answers, and no
\* counter exists yet.
InitConc ==
    /\ now = StartTime
    /\ redisOk = TRUE
    /\ redisClient = [p \in Procs |-> TRUE]
    /\ started = [p \in Procs |-> TRUE]
    /\ redis = [k \in Keys |-> Absent]
    /\ pre = [k \in Keys |-> 0]
    /\ localCache = [p \in Procs |-> [k \in Keys |-> Absent]]
    /\ mu = [p \in Procs |-> NoThread]
    /\ pc = [th \in Threads |-> "idle"]
    /\ fr = [th \in Threads |-> NoFrame]
    /\ calls = 0
    /\ ninc = [p \in Procs |-> [k \in Keys |-> 0]]
    /\ hist = [i \in CounterIds |-> [k \in RateKeys |-> <<>>]]
    /\ res = NoRes
    /\ prev = NoPrev
    /\ NoMessages
    /\ NoRegistrations
    /\ NoReaders
    /\ NoSockets
    /\ NoTokens
    /\ HandlerIdle

NextConc ==
    \E th \in Threads :
        \/ \E c \in Clients : ConcurrentRateLimitCall(th, c)
        \/ IncrementLock(th)
        \/ IncrementRemote(th)
        \/ IncrementUnlock(th)
        \/ RateLimitAfterIncrement(th)
        \/ RateLimitSetTTL(th)

SpecConc == InitConc /\ [][NextConc]_vars

(* --------------------------- CacheManager.Get -------------------------- *)

\* The local tier skipped: every read goes to Redis.
GetLocalHitNever(p, k) == FALSE

\* The local tier consulted only after the server has answered.
GetLocalHitIfRemoteUp(p, k) ==
    LocalGet(localCache[p], k, now) # Absent /\ (redisClient[p] => redisOk)

\* val, found := cm.localCache.Get(key)
GetLocalHit(p, k) == LocalGet(localCache[p], k, now) # Absent

\* What Get(key, target) returns for a target of Go type tk, and the tier that
\* answered. Local hit: json.Marshal(val) then json.Unmarshal into the target
\* (a Marshal error returns found = false). Local miss with a client:
\* redis.Nil -> (false, nil); another error -> (false, err); a hit ->
\* (true, json.Unmarshal(data, target)). Without a client: (false, nil).
GetResult(p, k, tk) ==
    IF GetLocalHit(p, k)
    THEN LET m == Marshal(localCache[p][k].v) IN
         IF ~m.ok THEN [found |-> FALSE, err |-> TRUE, v |-> NoValue, tier |-> "local"]
         ELSE [found |-> TRUE, err |-> ~Unmarshal(m.text, tk).ok,
               v |-> Unmarshal(m.text, tk).v, tier |-> "local"]
    ELSE IF redisClient[p]
    THEN IF ~redisOk THEN [found |-> FALSE, err |-> TRUE, v |-> NoValue, tier |-> "none"]
         ELSE IF RedisGet(redis, k, now) = Absent
         THEN [found |-> FALSE, err |-> FALSE, v |-> NoValue, tier |-> "none"]
         ELSE [found |-> TRUE, err |-> ~Unmarshal(redis[k].v, tk).ok,
               v |-> Unmarshal(redis[k].v, tk).v, tier |-> "remote"]
    ELSE [found |-> FALSE, err |-> FALSE, v |-> NoValue, tier |-> "none"]

\* cm.localCache.Set(key, data, 5*time.Minute): the local copy Get makes of
\* the bytes Redis returned.
Backfill(p, k) ==
    [localCache EXCEPT ![p][k] =
        Entry(BytesOf(redis[k].v), now + BackfillTTL, redis[k].born, redis[k].ttl)]

\* Get(key, target) by a goroutine of p (cm.mu.RLock: no writer inside).
GetCall(p, k, tk) ==
    /\ started[p]
    /\ MuFree(p)
    /\ calls < MaxCacheCalls
    /\ calls' = calls + 1
    /\ LET r == GetResult(p, k, tk)
           src == IF r.tier = "local" THEN localCache[p][k]
                  ELSE IF r.tier = "remote" THEN redis[k] ELSE Absent
       IN /\ localCache' = IF r.tier = "remote" THEN Backfill(p, k) ELSE localCache
          /\ res' = [NoRes EXCEPT !.op = "Get", !.p = p, !.k = k, !.tk = tk,
                        !.found = r.found, !.err = r.err, !.v = r.v, !.tier = r.tier,
                        !.lhit = (LocalGet(localCache[p], k, now) # Absent),
                        !.rhit = (RedisGet(redis, k, now) # Absent),
                        !.client = redisClient[p], !.reach = redisOk,
                        !.rtext = redis[k].v,
                        !.born = src.born, !.ottl = src.ttl,
                        !.bttl = IF r.tier = "remote" THEN BackfillTTL ELSE 0]
    /\ prev' = PrevOf(res)
    /\ UNCHANGED <<subVars, topVars, regVars, rlock, extVars>>
    /\ UNCHANGED <<now, redisOk, redisClient, started, redis, mu, pc, fr,
                   ninc, pre, hist>>

\* Set(key, value, ttl) by a goroutine of p (cm.mu.Lock for the whole call).
SetCall(p, k, v, ttl) ==
    /\ started[p]
    /\ MuFree(p)
    /\ calls < MaxCacheCalls
    /\ calls' = calls + 1
    /\ localCache' = SetLocal(p, k, v, ttl)
    /\ redis' = SetRemote(p, k, v, ttl)
    /\ res' = [NoRes EXCEPT !.op = "Set", !.p = p, !.k = k, !.v = v, !.ttl = ttl,
                  !.err = SetFails(p, v), !.client = redisClient[p],
                  !.reach = redisOk]
    /\ prev' = PrevOf(res)
    /\ UNCHANGED <<subVars, topVars, regVars, rlock, extVars>>
    /\ UNCHANGED <<now, redisOk, redisClient, started, mu, pc, fr, ninc, pre, hist>>

(* ----------------------- process start (main.go) ----------------------- *)

\* The placeholder WarmUsageCache stores: map[string]interface{}{"warming": true}.
Warming == GoObj(0)

\* WarmUsageCache's two Sets on stores l and r (Set's errors are dropped).
WarmLocal(l, t) == LocalSet(LocalSet(l, TopKey, Warming, WarmTTL, t), StatsKey, Warming, WarmTTL, t)
WarmRemote(r, t) ==
    RedisSet(RedisSet(r, TopKey, Marshal(Warming).text, WarmTTL, t),
             StatsKey, Marshal(Warming).text, WarmTTL, t)

\* main: cache.GetCacheManager() (initialize: the client is kept only if Ping
\* succeeds) followed by cacheMgr.WarmUsageCache().
StartProcess(p) ==
    /\ ~started[p]
    /\ started' = [started EXCEPT ![p] = TRUE]
    /\ redisClient' = [redisClient EXCEPT ![p] = redisOk]
    /\ localCache' = [localCache EXCEPT ![p] = WarmLocal(@, now)]
    /\ redis' = IF redisOk THEN WarmRemote(redis, now) ELSE redis
    /\ prev' = PrevOf(res)
    /\ res' = [NoRes EXCEPT !.op = "start", !.p = p]
    /\ pubSub' = [pubSub EXCEPT ![p] = IF redisOk THEN @ + 1 ELSE @]
    /\ UNCHANGED <<inbox, topVars, regVars, rlock, extVars>>
    /\ UNCHANGED <<now, redisOk, mu, pc, fr, calls, ninc, pre, hist>>

\* The values callers store (an aggregate JSON can encode, and one it cannot),
\* the TTLs they pass and the Go types they read into.
SetValues == {GoObj(1), GoBad}
SetTTLs == {WarmTTL, Hour}
GetTargets == {"obj", "bytes"}

\* Each process either has not started yet or started long ago (its warming
\* entries have expired), with or without a Redis client; Redis holds nothing.
InitCache ==
    /\ now = MaxTime - CacheSpan
    /\ redisOk \in BOOLEAN
    /\ started \in [Procs -> BOOLEAN]
    /\ redisClient \in [Procs -> BOOLEAN]
    /\ \A p \in Procs : redisClient[p] => started[p]
    /\ redis = [k \in Keys |-> Absent]
    /\ pre = [k \in Keys |-> 0]
    /\ localCache = [p \in Procs |-> [k \in Keys |-> Absent]]
    /\ mu = [p \in Procs |-> NoThread]
    /\ pc = [th \in Threads |-> "idle"]
    /\ fr = [th \in Threads |-> NoFrame]
    /\ calls = 0
    /\ ninc = [p \in Procs |-> [k \in Keys |-> 0]]
    /\ hist = [i \in CounterIds |-> [k \in RateKeys |-> <<>>]]
    /\ res = NoRes
    /\ prev = NoPrev
    /\ NoMessages
    /\ NoRegistrations
    /\ NoReaders
    /\ NoSockets
    /\ NoTokens
    /\ HandlerIdle

NextCache ==
    \/ \E p \in Procs :
        \/ StartProcess(p)
        \/ \E v \in SetValues, ttl \in SetTTLs : SetCall(p, TopKey, v, ttl)
        \/ \E tk \in GetTargets : GetCall(p, TopKey, tk)
        \/ DeleteCall(p, TopKey)
    \/ Tick
    \/ RedisFail
    \/ RedisRecover

SpecCache == InitCache /\ [][NextCache]_vars

(* ---------------- invalidation over the "usage_updates" channel -------- *)

\* once.Do: the construction has already run in this process.
OnceNever(p) == FALSE

\* once.Do(func() {...}): the function runs only in the first call.
OnceDone(p) == started[p]

\* A later cache.GetCacheManager() (NewClientHandler, NewWebSocketHandler):
\* once.Do runs initialize only if it has not run; initialize keeps the client
\* and subscribes (starting one listener) only if Ping succeeds.
GetCacheManager(p) ==
    /\ started[p]
    /\ IF OnceDone(p)
       THEN UNCHANGED <<redisClient, pubSub>>
       ELSE /\ redisClient' = [redisClient EXCEPT ![p] = redisOk]
            /\ pubSub' = [pubSub EXCEPT ![p] = IF redisOk THEN @ + 1 ELSE @]
    /\ prev' = PrevOf(res)
    /\ res' = [NoRes EXCEPT !.op = "getmgr", !.p = p, !.client = redisClient'[p]]
    /\ UNCHANGED <<inbox, topVars, regVars, rlock, extVars>>
    /\ UNCHANGED <<now, redisOk, started, redis, localCache, mu, pc, fr,
                   calls, ninc, pre, hist>>

\* The payload PublishUpdate encodes and handleUpdateMessage decodes:
\* {"action": "usage_updated", "client_id": c, "timestamp": time.Now().Unix()}
UpdateEvent(c, t) == [action |-> "usage_updated", client_id |-> c, timestamp |-> t]

\* The handler's list without the global aggregate.
InvalidatedNoTop(c) == <<DailyKey(c), ClientKey(c)>>

\* cacheKeys of handleUpdateMessage: the keys deleted for an event of client
\* c, in the order of the loop.
Invalidated(c) == <<DailyKey(c), TopKey, ClientKey(c)>>
DerivedKeys(c) == {Invalidated(c)[i] : i \in 1..Len(Invalidated(c))}

\* The keys the handlers store through Set for client c: GetDailyUsage's
\* "usage:daily:<c>" and refreshTopClientsCache's "usage:top:last24h".
HandlerSetKeys(c) == {DailyKey(c), TopKey}

\* Publish delivers whatever the state of the publisher's client and server.
PublishDeliversAlways(p) == TRUE

\* PublishUpdate returns at once without a client; Publish (its error is
\* dropped) reaches the subscribers only if the server answers.
PublishDelivers(p) == redisClient[p] /\ redisOk

\* PublishUpdate(clientID): every process that holds a subscription, the
\* publisher included, is sent the event.
PublishUpdate(p, c) ==
    /\ started[p]
    /\ calls < MaxCacheCalls
    /\ calls' = calls + 1
    /\ inbox' = IF PublishDelivers(p)
                THEN [q \in Procs |-> IF pubSub[q] > 0
                                      THEN Append(inbox[q], UpdateEvent(c, now))
                                      ELSE inbox[q]]
                ELSE inbox
    /\ prev' = PrevOf(res)
    /\ res' = [NoRes EXCEPT !.op = "publish", !.p = p, !.k = DailyKey(c),
                  !.client = redisClient[p], !.reach = redisOk]
    /\ UNCHANGED <<pubSub, topVars, regVars, rlock, extVars>>
    /\ UNCHANGED <<now, redisOk, redisClient, started, redis, localCache, mu, pc, fr,
                   ninc, pre, hist>>

\* An entry whose version is raised on each event instead of being removed.
HandledLocalVersioned(l, c) ==
    [l EXCEPT ![TopKey] = Entry(GoInt(IF Has(l, TopKey) /\ l[TopKey].v.kind = "int64"
                                      THEN l[TopKey].v.n + 1 ELSE 1), 0, 0, 0)]

\* for _, key := range cacheKeys { cm.Delete(key) }: the local tier and Redis
\* after the Deletes of the keys ks, one after the other.
RECURSIVE LocalDeleteEach(_, _)
LocalDeleteEach(l, ks) ==
    IF ks = <<>> THEN l ELSE LocalDeleteEach(LocalDelete(l, Head(ks)), Tail(ks))
RECURSIVE RedisDelEach(_, _)
RedisDelEach(r, ks) ==
    IF ks = <<>> THEN r ELSE RedisDelEach(RedisDel(r, Head(ks)), Tail(ks))

\* The local tier after handleUpdateMessage's cm.Delete calls.
HandledLocal(l, c) == LocalDeleteEach(l, Invalidated(c))

\* Redis after the DEL commands.
HandledRemote(r, c) == RedisDelEach(r, Invalidated(c))

\* The listener of q takes the next message off its subscription and
\* handleUpdateMessage deletes the event's keys (Delete's errors are dropped).
HandleUpdateMessage(q) ==
    /\ inbox[q] # <<>>
    /\ MuFree(q)
    /\ LET c == Head(inbox[q]).client_id IN
          /\ localCache' = [localCache EXCEPT ![q] = HandledLocal(@, c)]
          /\ redis' = IF redisClient[q] /\ redisOk THEN HandledRemote(redis, c) ELSE redis
          /\ res' = [NoRes EXCEPT !.op = "handle", !.p = q, !.k = DailyKey(c),
                        !.client = redisClient[q], !.reach = redisOk,
                        !.lhit = (\E k \in DerivedKeys(c) : Has(localCache[q], k)),
                        !.rhit = (\E k \in DerivedKeys(c) : Has(redis, k))]
    /\ inbox' = [inbox EXCEPT ![q] = Tail(@)]
    /\ prev' = PrevOf(res)
    /\ UNCHANGED <<pubSub, topVars, regVars, rlock, extVars>>
    /\ UNCHANGED <<now, redisOk, redisClient, started, mu, pc, fr,
                   calls, ninc, pre, hist>>

\* As InitCache: each process has not started yet or started long ago. The
\* calls of such a run take place within one 30 s step of the clock.
InitInval == InitCache

NextInval ==
    \/ \E p \in Procs :
        \/ StartProcess(p)
        \/ GetCacheManager(p)
        \/ \E c \in Clients : SetCall(p, DailyKey(c), GoObj(1), Hour)
        \/ \E c \in Clients : GetCall(p, DailyKey(c), "obj")
        \/ \E c \in Clients : PublishUpdate(p, c)
        \/ HandleUpdateMessage(p)
    \/ RedisFail
    \/ RedisRecover

SpecInval == InitInval /\ [][NextInval]_vars

(* ------------- the calls of the manager, from entry to return ---------- *)

\* The methods of the manager that take cm.mu for writing, and the one that
\* takes it for reading; PublishUpdate takes no lock.
WriteOps == {"Set", "Delete"}
LiveOps == WriteOps \cup {"Get", "Publish"}

\* A goroutine enters Set, Get or Delete of "usage:top:last24h", or
\* PublishUpdate.
LiveCall(th, op) ==
    /\ pc[th] = "idle"
    /\ started[ProcOf(th)]
    /\ calls < MaxLiveCalls
    /\ calls' = calls + 1
    /\ pc' = [pc EXCEPT ![th] = IF op = "Publish" THEN "op_locked" ELSE "op_lock"]
    /\ fr' = [fr EXCEPT ![th] = [NoFrame EXCEPT !.op = op, !.key = TopKey]]
    /\ UNCHANGED <<subVars, topVars, regVars, rlock, extVars>>
    /\ UNCHANGED <<now, redisOk, redisClient, started, redis, localCache, mu,
                   ninc, pre, hist, res, prev>>

\* cm.mu.Lock() of Set and Delete; cm.mu.RLock() of Get, which waits only
\* for a writer.
LiveLock(th) ==
    LET p == ProcOf(th) IN
    /\ pc[th] = "op_lock"
    /\ IF fr[th].op \in WriteOps
       THEN /\ MuFree(p)
            /\ mu' = [mu EXCEPT ![p] = th]
            /\ rlock' = rlock
       ELSE /\ mu[p] = NoThread
            /\ rlock' = [rlock EXCEPT ![p] = @ \cup {th}]
            /\ mu' = mu
    /\ pc' = [pc EXCEPT ![th] = "op_locked"]
    /\ UNCHANGED <<subVars, topVars, regVars, extVars>>
    /\ UNCHANGED <<now, redisOk, redisClient, started, redis, localCache, fr,
                   calls, ninc, pre, hist, res, prev>>

\* The call issues a Redis command: Set and Delete with a client (Set once
\* the value is encoded), Get with a client on a local miss, PublishUpdate
\* with a client.
IssuesRemote(th) ==
    LET p == ProcOf(th) IN
    /\ redisClient[p]
    /\ fr[th].op = "Get" => ~GetLocalHit(p, fr[th].key)

\* The body of the method, under the lock: the local part, then the Redis
\* command under its deadline.
LiveBody(th) ==
    LET p == ProcOf(th)
        k == fr[th].key
        op == fr[th].op
        r == GetResult(p, k, "obj")
    IN
    /\ pc[th] = "op_locked"
    /\ IssuesRemote(th) => RemoteCallReturns(p)
    /\ localCache' = CASE op = "Set" -> SetLocal(p, k, GoObj(1), Hour)
                        [] op = "Delete" -> [localCache EXCEPT ![p] = LocalDelete(@, k)]
                        [] op = "Get" /\ r.tier = "remote" -> Backfill(p, k)
                        [] OTHER -> localCache
    /\ redis' = CASE op = "Set" -> SetRemote(p, k, GoObj(1), Hour)
                   [] op = "Delete" -> DeleteRemote(p, k)
                   [] OTHER -> redis
    /\ inbox' = IF op = "Publish" /\ PublishDelivers(p)
                THEN [q \in Procs |-> IF pubSub[q] > 0
                                      THEN Append(inbox[q], UpdateEvent("c1", now))
                                      ELSE inbox[q]]
                ELSE inbox
    /\ fr' = [fr EXCEPT ![th].err = CASE op = "Set" -> SetFails(p, GoObj(1))
                                      [] op = "Delete" -> DeleteFails(p)
                                      [] op = "Get" -> r.err
                                      [] OTHER -> FALSE,
                         ![th].reach = redisOk]
    /\ pc' = [pc EXCEPT ![th] = IF op = "Publish" THEN "op_return" ELSE "op_unlock"]
    /\ UNCHANGED <<pubSub, topVars, regVars, rlock, extVars>>
    /\ UNCHANGED <<now, redisOk, redisClient, started, mu,
                   calls, ninc, pre, hist, res, prev>>

\* defer cm.mu.Unlock() / cm.mu.RUnlock(), and the return to the caller.
LiveUnlock(th) ==
    LET p == ProcOf(th) IN
    /\ pc[th] \in {"op_unlock", "op_return"}
    /\ mu' = IF mu[p] = th THEN [mu EXCEPT ![p] = NoThread] ELSE mu
    /\ rlock' = [rlock EXCEPT ![p] = @ \ {th}]
    /\ pc' = [pc EXCEPT ![th] = "idle"]
    /\ fr' = [fr EXCEPT ![th] = NoFrame]
    /\ UNCHANGED <<subVars, topVars, regVars, extVars>>
    /\ UNCHANGED <<now, redisOk, redisClient, started, redis, localCache,
                   calls, ninc, pre, hist, res, prev>>

\* The goroutines of one process, which share its cm.mu.
LiveThreads == {th \in Threads : ProcOf(th) = "p1"}

\* The processes are up, p1 with or without a Redis client; the server
\* answers or does not; the local tiers hold what WarmUsageCache stored at
\* the start, or nothing (the placeholders have expired).
InitLive ==
    /\ now = StartTime
    /\ redisOk \in BOOLEAN
    /\ \E b \in BOOLEAN : redisClient = [p \in Procs |-> b /\ p = "p1"]
    /\ started = [p \in Procs |-> TRUE]
    /\ redis = [k \in Keys |-> Absent]
    /\ pre = [k \in Keys |-> 0]
    /\ \E w \in BOOLEAN :
        localCache = [p \in Procs |-> IF w THEN WarmLocal([k \in Keys |-> Absent], StartTime)
                                       ELSE [k \in Keys |-> Absent]]
    /\ mu = [p \in Procs |-> NoThread]
    /\ pc = [th \in Threads |-> "idle"]
    /\ fr = [th \in Threads |-> NoFrame]
    /\ calls = 0
    /\ ninc = [p \in Procs |-> [k \in Keys |-> 0]]
    /\ hist = [i \in CounterIds |-> [k \in RateKeys |-> <<>>]]
    /\ res = NoRes
    /\ prev = NoPrev
    /\ NoMessages
    /\ NoRegistrations
    /\ NoReaders
    /\ NoSockets
    /\ NoTokens
    /\ HandlerIdle

\* The steps a goroutine takes inside a call, once it has entered it.
CallStep(th) ==
    \/ LiveLock(th)
    \/ LiveBody(th)
    \/ LiveUnlock(th)
    \/ IncrementLock(th)
    \/ IncrementRemote(th)
    \/ IncrementLocalFetch(th)
    \/ IncrementLocalStore(th)
    \/ IncrementUnlock(th)

NextLive ==
    \/ \E th \in LiveThreads :
        \/ \E op \in LiveOps : LiveCall(th, op)
        \/ calls < MaxLiveCalls /\ IncrementCall(th, CounterKey)
        \/ CallStep(th)
    \/ RedisFail
    \/ RedisRecover

\* A goroutine that can take its next step is scheduled; nothing is assumed
\* about the server.
SpecLive == InitLive /\ [][NextLive]_vars /\ \A th \in LiveThreads : WF_vars(CallStep(th))

(* ----------------------- ClientHandler.GetTopClients ------------------- *)

\* configs.AppConfig.CacheTTL (CACHE_TTL, "1h" by default).
CacheTTL == Hour

\* An aggregate query (fetchTopClients' Scan, GetDailyUsage's Scan) and what
\* it returned.
Query(t) == [at |-> t, ok |-> dbOk]

\* A read that answers 500 when a cache call failed.
ReadStatusStrict(cacheErr, dbErr) == IF dbErr \/ cacheErr THEN 500 ELSE 200

\* The status of a read that went to the database: 500 if the query failed,
\* else 200; the errors of the cache calls are not looked at.
ReadStatus(cacheErr, dbErr) == IF dbErr THEN 500 ELSE 200

\* The TopClientsResponse built from the n-th query (GeneratedAt: time.Now()
\* of that query), as a cache value.
TopResponse(n) == GoObj(n)

\* The placeholder taken to be as young as the read that finds it.
IsStaleByAgeOnly(v, t) ==
    IF v.n >= 1 /\ v.n <= Len(fetched)
    THEN ~(t - fetched[v.n].at < StaleAfter)
    ELSE FALSE

\* cachedResponse.GeneratedAt of a decoded cache value: the time of the query
\* that built it; the warming placeholder {"warming": true} decodes into a
\* TopClientsResponse whose GeneratedAt is the zero time.
IsStale(v, t) ==
    IF v.n >= 1 /\ v.n <= Len(fetched)
    THEN ~(t - fetched[v.n].at < StaleAfter)
    ELSE TRUE

\* The head of GetTopClients: h.cache.Get(cacheKey, &cachedResponse); a hit
\* younger than 5 minutes is returned; an older hit starts
\* go h.refreshTopClientsCache() and goes on to fetch; a miss (or a Get
\* error) goes on to the synchronous refreshTopClientsCache().
TopGet(th) ==
    LET p == ProcOf(th)
        r == GetResult(p, TopKey, "obj")
        hit == r.found /\ ~r.err
    IN
    /\ pc[th] = "idle"
    /\ started[p]
    /\ MuFree(p)
    /\ calls < MaxTopCalls
    /\ calls' = calls + 1
    /\ localCache' = IF r.tier = "remote" THEN Backfill(p, TopKey) ELSE localCache
    /\ IF hit /\ ~IsStale(r.v, now)
       THEN /\ rq' = [rq EXCEPT ![th] = [NoRequest EXCEPT !.st = "done", !.path = "fresh",
                                            !.cached = r.v.n, !.status = 200,
                                            !.body = r.v.n]]
            /\ pc' = pc
            /\ bg' = bg
       ELSE IF hit
       THEN /\ rq' = [rq EXCEPT ![th] = [NoRequest EXCEPT !.st = "open", !.path = "stale",
                                            !.cached = r.v.n, !.cerr = r.err]]
            /\ pc' = [pc EXCEPT ![th] = "top_fetch"]
            /\ bg' = [bg EXCEPT ![p] = Append(@, th)]
       ELSE /\ rq' = [rq EXCEPT ![th] = [NoRequest EXCEPT !.st = "open", !.path = "miss",
                                            !.cerr = r.err]]
            /\ pc' = [pc EXCEPT ![th] = "top_refresh"]
            /\ bg' = bg
    /\ UNCHANGED <<subVars, dbOk, fetched, regVars, rlock, extVars>>
    /\ UNCHANGED <<now, redisOk, redisClient, started, redis, mu, fr,
                   ninc, pre, hist, res, prev>>

\* refreshTopClientsCache() called by the handler on a miss:
\* data, err := h.fetchTopClients(); if err == nil { h.cache.Set(...) }
TopRefresh(th) ==
    LET p == ProcOf(th)
        n == Len(fetched) + 1
    IN
    /\ pc[th] = "top_refresh"
    /\ MuFree(p)
    /\ fetched' = Append(fetched, Query(now))
    /\ localCache' = IF dbOk THEN SetLocal(p, TopKey, TopResponse(n), CacheTTL) ELSE localCache
    /\ redis' = IF dbOk THEN SetRemote(p, TopKey, TopResponse(n), CacheTTL) ELSE redis
    /\ rq' = [rq EXCEPT ![th].nq = @ + 1,
                        ![th].stored = IF dbOk THEN n ELSE @,
                        ![th].failed = @ \/ ~dbOk,
                        ![th].cerr = @ \/ (dbOk /\ SetFails(p, TopResponse(n)))]
    /\ pc' = [pc EXCEPT ![th] = "top_fetch"]
    /\ UNCHANGED <<subVars, dbOk, bg, regVars, rlock, extVars>>
    /\ UNCHANGED <<now, redisOk, redisClient, started, mu, fr, calls,
                   ninc, pre, hist, res, prev>>

\* The tail of GetTopClients: response, err := h.fetchTopClients(); 500 on an
\* error, else 200 with that response.
TopFetch(th) ==
    LET n == Len(fetched) + 1 IN
    /\ pc[th] = "top_fetch"
    /\ fetched' = Append(fetched, Query(now))
    /\ rq' = [rq EXCEPT ![th].nq = @ + 1,
                        ![th].failed = @ \/ ~dbOk,
                        ![th].status = ReadStatus(rq[th].cerr, ~dbOk),
                        ![th].body = IF dbOk THEN n ELSE -1,
                        ![th].st = "done"]
    /\ pc' = [pc EXCEPT ![th] = "idle"]
    /\ UNCHANGED <<subVars, dbOk, bg, regVars, rlock, extVars>>
    /\ UNCHANGED <<now, redisOk, redisClient, started, redis, localCache, mu, fr, calls,
                   ninc, pre, hist, res, prev>>

\* A goroutine started by go h.refreshTopClientsCache() runs: one query, and
\* Set of its result if it succeeded.
BackgroundRefresh(p) ==
    LET n == Len(fetched) + 1 IN
    /\ bg[p] # <<>>
    /\ MuFree(p)
    /\ fetched' = Append(fetched, Query(now))
    /\ localCache' = IF dbOk THEN SetLocal(p, TopKey, TopResponse(n), CacheTTL) ELSE localCache
    /\ redis' = IF dbOk THEN SetRemote(p, TopKey, TopResponse(n), CacheTTL) ELSE redis
    /\ bg' = [bg EXCEPT ![p] = Tail(@)]
    /\ UNCHANGED <<subVars, dbOk, rq, regVars, rlock, extVars>>
    /\ UNCHANGED <<now, redisOk, redisClient, started, mu, pc, fr, calls,
                   ninc, pre, hist, res, prev>>

\* The DailyUsageResponse built from the n-th query, as a cache value.
DailyResponse(n) == GoObj(n)

\* GetDailyUsage for client c: a cache hit that decodes is returned; else the
\* query runs, 500 on its error, else Set (its error is dropped) and 200.
GetDailyUsage(th, c) ==
    LET p == ProcOf(th)
        k == DailyKey(c)
        r == GetResult(p, k, "obj")
        hit == r.found /\ ~r.err
        n == Len(fetched) + 1
        read == IF r.tier = "remote" THEN Backfill(p, k) ELSE localCache
        cacheErr == r.err \/ (dbOk /\ SetFails(p, DailyResponse(n)))
    IN
    /\ pc[th] = "idle"
    /\ started[p]
    /\ MuFree(p)
    /\ calls < MaxTopCalls
    /\ calls' = calls + 1
    /\ IF hit
       THEN /\ localCache' = read
            /\ rq' = [rq EXCEPT ![th] = [NoRequest EXCEPT !.st = "done", !.path = "fresh",
                                            !.cached = r.v.n, !.status = 200,
                                            !.body = r.v.n]]
            /\ UNCHANGED <<redis, fetched>>
       ELSE /\ fetched' = Append(fetched, Query(now))
            /\ localCache' =
                 IF dbOk
                 THEN [read EXCEPT ![p] = LocalSet(@, k, DailyResponse(n), CacheTTL, now)]
                 ELSE read
            /\ redis' = IF dbOk THEN SetRemote(p, k, DailyResponse(n), CacheTTL) ELSE redis
            /\ rq' = [rq EXCEPT ![th] =
                        [NoRequest EXCEPT !.st = "done", !.path = "miss", !.nq = 1,
                            !.stored = IF dbOk THEN n ELSE -1,
                            !.failed = ~dbOk,
                            !.cerr = cacheErr,
                            !.status = ReadStatus(cacheErr, ~dbOk),
                            !.body = IF dbOk THEN n ELSE -1]]
    /\ UNCHANGED <<subVars, dbOk, bg, regVars, rlock, extVars>>
    /\ UNCHANGED <<now, redisOk, redisClient, started, mu, pc, fr,
                   ninc, pre, hist, res, prev>>

\* The database stops answering the query, and answers again.
DbFail ==
    /\ dbOk
    /\ dbOk' = FALSE
    /\ UNCHANGED <<subVars, rq, bg, fetched, regVars, rlock, extVars>>
    /\ UNCHANGED <<now, redisOk, redisClient, started, redis, localCache, mu, pc, fr,
                   calls, ninc, pre, hist, res, prev>>

DbRecover ==
    /\ ~dbOk
    /\ dbOk' = TRUE
    /\ UNCHANGED <<subVars, rq, bg, fetched, regVars, rlock, extVars>>
    /\ UNCHANGED <<now, redisOk, redisClient, started, redis, localCache, mu, pc, fr,
                   calls, ninc, pre, hist, res, prev>>

\* The ages (30 s units) of the aggregate a process may hold when the run
\* starts: none (0), one stored 30 s ago, one stored five minutes ago.
InitialAges == {0, 1, StaleAfter}

\* The processes are up, with or without a Redis client. An earlier read may
\* have stored the aggregate, through Set, in the local tier of p1 and (with
\* a client) in Redis.
InitTop ==
    /\ now = MaxTime - CacheSpan
    /\ redisOk \in BOOLEAN
    /\ started = [p \in Procs |-> TRUE]
    /\ redisClient \in [Procs -> BOOLEAN]
    /\ pre = [k \in Keys |-> 0]
    /\ mu = [p \in Procs |-> NoThread]
    /\ pc = [th \in Threads |-> "idle"]
    /\ fr = [th \in Threads |-> NoFrame]
    /\ calls = 0
    /\ ninc = [p \in Procs |-> [k \in Keys |-> 0]]
    /\ hist = [i \in CounterIds |-> [k \in RateKeys |-> <<>>]]
    /\ res = NoRes
    /\ prev = NoPrev
    /\ NoMessages
    /\ NoRegistrations
    /\ NoReaders
    /\ NoSockets
    /\ NoTokens
    /\ dbOk \in BOOLEAN
    /\ rq = [th \in Threads |-> NoRequest]
    /\ bg = [p \in Procs |-> <<>>]
    /\ \E age \in InitialAges :
          IF age = 0
          THEN /\ fetched = <<>>
               /\ localCache = [p \in Procs |-> [k \in Keys |-> Absent]]
               /\ redis = [k \in Keys |-> Absent]
          ELSE /\ fetched = <<[at |-> now - age, ok |-> TRUE]>>
               /\ localCache = [p \in Procs |->
                     IF p = "p1"
                     THEN LocalSet([k \in Keys |-> Absent], TopKey, TopResponse(1),
                                   CacheTTL, now - age)
                     ELSE [k \in Keys |-> Absent]]
               /\ redis = IF redisClient["p1"]
                          THEN RedisSet([k \in Keys |-> Absent], TopKey,
                                        Marshal(TopResponse(1)).text, CacheTTL, now - age)
                          ELSE [k \in Keys |-> Absent]

NextTop ==
    \/ \E th \in Threads :
        \/ TopGet(th)
        \/ TopRefresh(th)
        \/ TopFetch(th)
    \/ \E p \in Procs : BackgroundRefresh(p)
    \/ DbFail
    \/ DbRecover
    \/ Tick
    \/ RedisFail
    \/ RedisRecover

SpecTop == InitTop /\ [][NextTop]_vars

(* ------------- the read endpoints with the database healthy ------------ *)

\* As InitTop, with a database that answers every query.
InitRead == InitTop /\ dbOk = TRUE

\* Each process serves one read at a time.
ReadThreads == {<<p, 1>> : p \in Procs}

NextRead ==
    \/ \E th \in ReadThreads :
        \/ TopGet(th)
        \/ TopRefresh(th)
        \/ TopFetch(th)
        \/ \E c \in Clients : GetDailyUsage(th, c)
    \/ \E p \in Procs : BackgroundRefresh(p)
    \/ Tick
    \/ RedisFail
    \/ RedisRecover

SpecRead == InitRead /\ [][NextRead]_vars

(* ------------- the read of the top clients while processes start ------ *)

\* No process has started: the tiers are empty and no query has run.
InitWarm ==
    /\ now = MaxTime - CacheSpan
    /\ redisOk \in BOOLEAN
    /\ started = [p \in Procs |-> FALSE]
    /\ redisClient = [p \in Procs |-> FALSE]
    /\ pre = [k \in Keys |-> 0]
    /\ mu = [p \in Procs |-> NoThread]
    /\ pc = [th \in Threads |-> "idle"]
    /\ fr = [th \in Threads |-> NoFrame]
    /\ calls = 0
    /\ ninc = [p \in Procs |-> [k \in Keys |-> 0]]
    /\ hist = [i \in CounterIds |-> [k \in RateKeys |-> <<>>]]
    /\ res = NoRes
    /\ prev = NoPrev
    /\ inbox = [p \in Procs |-> <<>>]
    /\ pubSub = [p \in Procs |-> 0]
    /\ NoRegistrations
    /\ NoReaders
    /\ NoSockets
    /\ NoTokens
    /\ dbOk \in BOOLEAN
    /\ rq = [th \in Threads |-> NoRequest]
    /\ bg = [p \in Procs |-> <<>>]
    /\ fetched = <<>>
    /\ localCache = [p \in Procs |-> [k \in Keys |-> Absent]]
    /\ redis = [k \in Keys |-> Absent]

\* Processes start (and warm the cache) while others serve GET /api/usage/top.
NextWarm ==
    \/ \E p \in Procs : StartProcess(p)
    \/ \E th \in ReadThreads :
        \/ TopGet(th)
        \/ TopRefresh(th)
        \/ TopFetch(th)
    \/ \E p \in Procs : BackgroundRefresh(p)
    \/ Tick
    \/ RedisFail
    \/ RedisRecover

SpecWarm == InitWarm /\ [][NextWarm]_vars

(* --------------- configuration, registration and API keys -------------- *)

\* The texts SHARD_COUNT may hold when the process starts.
ShardCountTexts == {EnvUnset, EnvJunk} \cup {EnvNum(n) : n \in {-2, 0, 1, 2, 3, 64}}

\* getEnv(key, defaultValue): the variable's text unless it is empty.
GetEnv(e, d) == IF e.kind = "unset" THEN d ELSE e

\* parseInt(s): strconv.Atoi(s), and 0 when Atoi returns an error.
ParseInt(s) == IF s.kind = "digits" THEN s.n ELSE 0

\* LoadConfig (run by the package's init and again by main) fills AppConfig
\* and returns nil whatever the values are.
LoadConfig ==
    /\ ~AppConfig.loaded
    /\ AppConfig' = [AppConfig EXCEPT !.loaded = TRUE,
                                      !.ShardCount = ParseInt(GetEnv(AppConfig.env, EnvNum(4)))]
    /\ http' = [NoHttp EXCEPT !.op = "LoadConfig"]
    /\ UNCHANGED <<subVars, topVars, db, issued, shardCalls, rlock, extVars>>
    /\ UNCHANGED <<now, redisOk, redisClient, started, redis, localCache, mu, pc, fr,
                   calls, ninc, pre, hist, res, prev>>

\* Client ids as sequences of runes: the ids the requests of a run may draw
\* (over '0', '1', 'f'), and the population of all ids of IdLen hex digits.
IdRunes == {48, 49, 102}
Ids == UNION {[1..l -> IdRunes] : l \in 1..IdLen}
HexRunes == (48..57) \cup (97..102)
SampleIds == [1..IdLen -> HexRunes]

\* hash := 0; for _, char := range clientID { hash += int(char) }
RECURSIVE RuneSum(_)
RuneSum(clientID) == IF clientID = <<>> THEN 0 ELSE Head(clientID) + RuneSum(Tail(clientID))

\* Go's a % n for n # 0: the remainder of the truncated division, with the
\* sign of a.
GoRem(a, n) ==
    LET m == IF n < 0 THEN -n ELSE n
        r == (IF a < 0 THEN -a ELSE a) % m
    IN IF a < 0 THEN -r ELSE r

\* The shard taken from the first rune of the id alone.
ShardOfFirstRune(clientID, n) ==
    IF n = 0 THEN [panic |-> TRUE, shard |-> 0]
    ELSE [panic |-> FALSE, shard |-> GoRem(Head(clientID), n)]

\* GetShardForClient(clientID) with configs.AppConfig.ShardCount = n:
\* hash % n, a run-time panic (integer divide by zero) when n = 0.
GetShardForClient(clientID, n) ==
    IF n = 0 THEN [panic |-> TRUE, shard |-> 0]
    ELSE [panic |-> FALSE, shard |-> GoRem(RuneSum(clientID), n)]

\* The uuids drawn as API keys, and the three forms of a key: the uuid, what
\* HashAPIKey returns (bcrypt), what EncryptData returns (AES-CFB, base64).
ApiKeys == {"k1", "k2"}
Plain(k) == [alg |-> "plain", of |-> k]
HashAPIKey(k) == [alg |-> "bcrypt", of |-> k]
EncryptData(k) == [alg |-> "aes-cfb", of |-> k]
PresentedKeys == {Plain(k) : k \in ApiKeys} \cup {HashAPIKey(k) : k \in ApiKeys}
                     \cup {EncryptData(k) : k \in ApiKeys}

\* POST /api/register with a new email: uuid.New() gives the client id and
\* the API key; the row stores the key's hash; GetShardForClient gives the
\* shard mapping (a panic there ends the request with gin's 500, the row
\* already created); the response carries EncryptData(apiKey).
RegisterClient(id, k) ==
    LET n == AppConfig.ShardCount
        sh == GetShardForClient(id, n)
    IN
    /\ AppConfig.loaded
    /\ Cardinality(db.clients) < MaxClients
    /\ \A c \in db.clients : c.client_id # id /\ c.api_key.of # k
    /\ db' = [clients |-> db.clients \cup {[client_id |-> id, api_key |-> HashAPIKey(k)]},
              shard_mappings |->
                  IF sh.panic THEN db.shard_mappings
                  ELSE db.shard_mappings \cup {[client_id |-> id, shard_id |-> sh.shard]}]
    /\ shardCalls' = shardCalls \cup {[id |-> id, n |-> n, out |-> sh.shard, panic |-> sh.panic]}
    /\ http' = IF sh.panic
               THEN [NoHttp EXCEPT !.op = "register", !.status = 500, !.client_id = id,
                                   !.panic = TRUE]
               ELSE [NoHttp EXCEPT !.op = "register", !.status = 201, !.client_id = id,
                                   !.api_key = EncryptData(k)]
    /\ issued' = IF sh.panic THEN issued
                 ELSE issued \cup {[client_id |-> id, api_key |-> EncryptData(k)]}
    /\ UNCHANGED <<subVars, topVars, AppConfig, rlock, extVars>>
    /\ UNCHANGED <<now, redisOk, redisClient, started, redis, localCache, mu, pc, fr,
                   calls, ninc, pre, hist, res, prev>>

\* ValidateAPIKey(apiKey): the first row WHERE api_key = apiKey, or an error
\* (no row, or the query failed).
ValidateAPIKey(apiKey) ==
    LET rows == {c \in db.clients : c.api_key = apiKey} IN
    IF ~dbOk \/ rows = {} THEN [err |-> TRUE, client_id |-> <<>>]
    ELSE [err |-> FALSE, client_id |-> (CHOOSE c \in rows : TRUE).client_id]

\* AuthMiddleware for a request that carries X-API-Key (the IP whitelist is
\* off by default): 401 if ValidateAPIKey fails, else the request goes on as
\* the client found (status 200 here).
AuthMiddleware(apiKey) ==
    LET v == ValidateAPIKey(apiKey) IN
    /\ AppConfig.loaded
    /\ http' = [NoHttp EXCEPT !.op = "auth", !.status = IF v.err THEN 401 ELSE 200,
                              !.client_id = v.client_id, !.api_key = apiKey]
    /\ UNCHANGED <<subVars, topVars, AppConfig, db, issued, shardCalls, rlock, extVars>>
    /\ UNCHANGED <<now, redisOk, redisClient, started, redis, localCache, mu, pc, fr,
                   calls, ninc, pre, hist, res, prev>>

\* GetShardForClient evaluated for an id, outside a registration.
ShardCall(id) ==
    LET n == AppConfig.ShardCount
        sh == GetShardForClient(id, n)
    IN
    /\ AppConfig.loaded
    /\ calls < MaxShardCalls
    /\ calls' = calls + 1
    /\ shardCalls' = shardCalls \cup {[id |-> id, n |-> n, out |-> sh.shard, panic |-> sh.panic]}
    /\ UNCHANGED <<subVars, topVars, AppConfig, db, http, issued, rlock, extVars>>
    /\ UNCHANGED <<now, redisOk, redisClient, started, redis, localCache, mu, pc, fr,
                   ninc, pre, hist, res, prev>>

\* The process is about to start, with SHARD_COUNT holding one of the texts;
\* the tables are empty.
InitReg ==
    /\ now = StartTime
    /\ redisOk = TRUE
    /\ redisClient = [p \in Procs |-> FALSE]
    /\ started = [p \in Procs |-> FALSE]
    /\ redis = [k \in Keys |-> Absent]
    /\ pre = [k \in Keys |-> 0]
    /\ localCache = [p \in Procs |-> [k \in Keys |-> Absent]]
    /\ mu = [p \in Procs |-> NoThread]
    /\ pc = [th \in Threads |-> "idle"]
    /\ fr = [th \in Threads |-> NoFrame]
    /\ calls = 0
    /\ ninc = [p \in Procs |-> [k \in Keys |-> 0]]
    /\ hist = [i \in CounterIds |-> [k \in RateKeys |-> <<>>]]
    /\ res = NoRes
    /\ prev = NoPrev
    /\ NoMessages
    /\ NoReaders
    /\ NoSockets
    /\ NoTokens
    /\ HandlerIdle
    /\ \E e \in ShardCountTexts : AppConfig = [loaded |-> FALSE, env |-> e, ShardCount |-> 0]
    /\ db = [clients |-> {}, shard_mappings |-> {}]
    /\ http = NoHttp
    /\ issued = {}
    /\ shardCalls = {}

\* Registrations, and requests that present an API key.
NextReg ==
    \/ LoadConfig
    \/ \E id \in Ids, k \in ApiKeys : RegisterClient(id, k)
    \/ \E apiKey \in PresentedKeys : AuthMiddleware(apiKey)

SpecReg == InitReg /\ [][NextReg]_vars

\* GetShardForClient applied to ids under the configured shard count.
InitShard == InitReg

NextShard ==
    \/ LoadConfig
    \/ \E id \in Ids : ShardCall(id)

SpecShard == InitShard /\ [][NextShard]_vars

(* ------------------------- the WebSocket handler ----------------------- *)

\* handlers holds two WebSocketHandler types: the first has HandleConnections
\* with a deferred unregister and RunHub as its hub loop; the second has
\* HandleConnections start listenForBroadcasts after each registration. A
\* build holds one of them.
Impls == {"RunHub", "listenForBroadcasts"}

\* A hub loop waiting in its select.
InSelect == [st |-> "select", msg |-> 0, todo |-> {}, start |-> {}]

\* go h.listenForBroadcasts() placed before h.register <- ws.
ListenerStartsBeforeRegister(impl) == impl = "listenForBroadcasts"

\* HandleConnections starts no hub loop before its send on h.register: the
\* second handler's go h.listenForBroadcasts() follows the send.
ListenerStartsOnUpgrade(impl) == FALSE

\* The loops waiting in select: the channels are unbuffered
\* (make(chan ...) without a size), so a send completes only when one of
\* these receives it.
Receivers == {i \in 1..Len(loops) : loops[i].st = "select"}

\* A caller runs go h.RunHub() (first handler only; main does not).
RunHub ==
    /\ wiring.impl = "RunHub"
    /\ Len(loops) < wiring.runHub
    /\ loops' = Append(loops, InSelect)
    /\ UNCHANGED <<wiring, clients, conn, bsend, hlog>>
    /\ UNCHANGED <<subVars, topVars, regVars, rlock, authVars>>
    /\ UNCHANGED <<now, redisOk, redisClient, started, redis, localCache, mu, pc, fr,
                   calls, ninc, pre, hist, res, prev>>

\* GET /ws: h.upgrader.Upgrade; on an error the handler returns, otherwise
\* the goroutine goes on to h.register <- ws. Connections are numbered in
\* the order of their requests.
HandleConnections(c, ok) ==
    /\ conn[c].st = "none"
    /\ \A d \in Conns : d < c => conn[d].st # "none"
    /\ conn' = [conn EXCEPT ![c].st = IF ok THEN "register" ELSE "failed"]
    /\ loops' = IF ok /\ ListenerStartsOnUpgrade(wiring.impl)
                THEN Append(loops, InSelect) ELSE loops
    /\ UNCHANGED <<wiring, clients, bsend, hlog>>
    /\ UNCHANGED <<subVars, topVars, regVars, rlock, authVars>>
    /\ UNCHANGED <<now, redisOk, redisClient, started, redis, localCache, mu, pc, fr,
                   calls, ninc, pre, hist, res, prev>>

\* case client := <-h.register: h.clients[client] = true, in loop i; the
\* sender's h.register <- ws returns.
HubRegister(i, c) ==
    /\ i \in Receivers
    /\ conn[c].st = "register"
    /\ clients' = clients \cup {c}
    /\ conn' = [conn EXCEPT ![c].st = "registered"]
    /\ UNCHANGED <<wiring, loops, bsend, hlog>>
    /\ UNCHANGED <<subVars, topVars, regVars, rlock, authVars>>
    /\ UNCHANGED <<now, redisOk, redisClient, started, redis, localCache, mu, pc, fr,
                   calls, ninc, pre, hist, res, prev>>

\* After the registration: go h.handleClientMessages(ws) and the ping loop
\* (first handler), or go h.listenForBroadcasts() and the read loop (second).
ConnServe(c) ==
    /\ conn[c].st = "registered"
    /\ conn' = [conn EXCEPT ![c].st = "serving"]
    /\ loops' = IF wiring.impl = "listenForBroadcasts" THEN Append(loops, InSelect)
                ELSE loops
    /\ UNCHANGED <<wiring, clients, bsend, hlog>>
    /\ UNCHANGED <<subVars, topVars, regVars, rlock, authVars>>
    /\ UNCHANGED <<now, redisOk, redisClient, started, redis, localCache, mu, pc, fr,
                   calls, ninc, pre, hist, res, prev>>

\* The peer of a connection goes away.
PeerLeaves(c) ==
    /\ conn[c].st \in {"register", "registered", "serving"}
    /\ conn[c].alive
    /\ conn' = [conn EXCEPT ![c].alive = FALSE]
    /\ UNCHANGED <<wiring, loops, clients, bsend, hlog>>
    /\ UNCHANGED <<subVars, topVars, regVars, rlock, authVars>>
    /\ UNCHANGED <<now, redisOk, redisClient, started, redis, localCache, mu, pc, fr,
                   calls, ninc, pre, hist, res, prev>>

\* The ping fails and HandleConnections returns into its deferred
\* h.unregister <- ws (first handler); ReadJSON fails and the loop does
\* h.unregister <- ws (second handler).
ConnFails(c) ==
    /\ conn[c].st = "serving"
    /\ ~conn[c].alive \/ conn[c].closed
    /\ conn' = [conn EXCEPT ![c].st = "unregister"]
    /\ UNCHANGED <<wiring, loops, clients, bsend, hlog>>
    /\ UNCHANGED <<subVars, topVars, regVars, rlock, authVars>>
    /\ UNCHANGED <<now, redisOk, redisClient, started, redis, localCache, mu, pc, fr,
                   calls, ninc, pre, hist, res, prev>>

\* case client := <-h.unregister: if the client is in h.clients, delete it
\* and client.Close(); in loop i.
HubUnregister(i, c) ==
    /\ i \in Receivers
    /\ conn[c].st = "unregister"
    /\ clients' = clients \ {c}
    /\ conn' = [conn EXCEPT ![c].st = "closing",
                            ![c].closed = IF c \in clients THEN TRUE ELSE @]
    /\ hlog' = Append(hlog, [ev |-> "unregister", c |-> c, m |-> 0, ok |-> TRUE,
                             was |-> c \in clients, before |-> clients,
                             set |-> clients', closed |-> conn'[c].closed])
    /\ UNCHANGED <<wiring, loops, bsend>>
    /\ UNCHANGED <<subVars, topVars, regVars, rlock, authVars>>
    /\ UNCHANGED <<now, redisOk, redisClient, started, redis, localCache, mu, pc, fr,
                   calls, ninc, pre, hist, res, prev>>

\* ws.Close() of HandleConnections (deferred), and its return.
ConnClose(c) ==
    /\ conn[c].st = "closing"
    /\ conn' = [conn EXCEPT ![c].st = "done", ![c].closed = TRUE]
    /\ UNCHANGED <<wiring, loops, clients, bsend, hlog>>
    /\ UNCHANGED <<subVars, topVars, regVars, rlock, authVars>>
    /\ UNCHANGED <<now, redisOk, redisClient, started, redis, localCache, mu, pc, fr,
                   calls, ninc, pre, hist, res, prev>>

\* BroadcastUpdate(clientID, data): the message is encoded and the caller
\* goes on to h.broadcast <- jsonData.
BroadcastUpdate(m) ==
    /\ bsend[m] = "idle"
    /\ \A j \in Msgs : j < m => bsend[j] # "idle"
    /\ bsend' = [bsend EXCEPT ![m] = "send"]
    /\ UNCHANGED <<wiring, loops, clients, conn, hlog>>
    /\ UNCHANGED <<subVars, topVars, regVars, rlock, authVars>>
    /\ UNCHANGED <<now, redisOk, redisClient, started, redis, localCache, mu, pc, fr,
                   calls, ninc, pre, hist, res, prev>>

\* case message := <-h.broadcast, in loop i: BroadcastUpdate returns and the
\* loop starts its range over h.clients.
HubBroadcast(i, m) ==
    /\ i \in Receivers
    /\ bsend[m] = "send"
    /\ bsend' = [bsend EXCEPT ![m] = "returned"]
    /\ loops' = [loops EXCEPT ![i] = [st |-> "range", msg |-> m, todo |-> clients,
                                      start |-> clients]]
    /\ UNCHANGED <<wiring, clients, conn, hlog>>
    /\ UNCHANGED <<subVars, topVars, regVars, rlock, authVars>>
    /\ UNCHANGED <<now, redisOk, redisClient, started, redis, localCache, mu, pc, fr,
                   calls, ninc, pre, hist, res, prev>>

\* The outcomes of client.WriteMessage: an error on a closed socket, success
\* to a peer that reads, either when the peer has gone away.
WriteOutcomes(c) ==
    IF conn[c].closed THEN {FALSE} ELSE IF conn[c].alive THEN {TRUE} ELSE BOOLEAN

\* The client kept in h.clients after a failed write.
KeptAfterWriteError(cl, c) == cl

\* delete(h.clients, client) after a failed write.
AfterWriteError(cl, c) == cl \ {c}

\* One turn of for client := range h.clients, in loop i: WriteMessage, and on
\* an error client.Close() and delete(h.clients, client). A key deleted from
\* the map before the range reaches it is not produced.
HubWrite(i, c, ok) ==
    /\ i \in 1..Len(loops)
    /\ loops[i].st = "range"
    /\ c \in loops[i].todo \cap clients
    /\ ok \in WriteOutcomes(c)
    /\ clients' = IF ok THEN clients ELSE AfterWriteError(clients, c)
    /\ conn' = IF ok THEN conn ELSE [conn EXCEPT ![c].closed = TRUE]
    /\ loops' = [loops EXCEPT ![i].todo = @ \ {c}]
    /\ hlog' = Append(hlog, [ev |-> "write", c |-> c, m |-> loops[i].msg, ok |-> ok,
                             was |-> c \in clients, before |-> clients,
                             set |-> clients', closed |-> conn'[c].closed])
    /\ UNCHANGED <<wiring, bsend>>
    /\ UNCHANGED <<subVars, topVars, regVars, rlock, authVars>>
    /\ UNCHANGED <<now, redisOk, redisClient, started, redis, localCache, mu, pc, fr,
                   calls, ninc, pre, hist, res, prev>>

\* The range is over: loop i is back in its select.
HubRangeDone(i) ==
    /\ i \in 1..Len(loops)
    /\ loops[i].st = "range"
    /\ loops[i].todo \cap clients = {}
    /\ loops' = [loops EXCEPT ![i] = InSelect]
    /\ hlog' = Append(hlog, [ev |-> "done", c |-> 0, m |-> loops[i].msg, ok |-> TRUE,
                             was |-> FALSE, before |-> loops[i].start,
                             set |-> clients, closed |-> FALSE])
    /\ UNCHANGED <<wiring, clients, conn, bsend>>
    /\ UNCHANGED <<subVars, topVars, regVars, rlock, authVars>>
    /\ UNCHANGED <<now, redisOk, redisClient, started, redis, localCache, mu, pc, fr,
                   calls, ninc, pre, hist, res, prev>>

\* The server is up with one of the two handlers; RunHub is started by
\* nobody (main.go) or, for the first handler, by one go h.RunHub().
InitHub ==
    /\ now = StartTime
    /\ redisOk = TRUE
    /\ redisClient = [p \in Procs |-> FALSE]
    /\ started = [p \in Procs |-> TRUE]
    /\ redis = [k \in Keys |-> Absent]
    /\ pre = [k \in Keys |-> 0]
    /\ localCache = [p \in Procs |-> [k \in Keys |-> Absent]]
    /\ mu = [p \in Procs |-> NoThread]
    /\ pc = [th \in Threads |-> "idle"]
    /\ fr = [th \in Threads |-> NoFrame]
    /\ calls = 0
    /\ ninc = [p \in Procs |-> [k \in Keys |-> 0]]
    /\ hist = [i \in CounterIds |-> [k \in RateKeys |-> <<>>]]
    /\ res = NoRes
    /\ prev = NoPrev
    /\ NoMessages
    /\ NoRegistrations
    /\ NoReaders
    /\ HandlerIdle
    /\ wiring \in {[impl |-> "RunHub", runHub |-> 0], [impl |-> "RunHub", runHub |-> 1],
                   [impl |-> "listenForBroadcasts", runHub |-> 0]}
    /\ loops = <<>>
    /\ clients = {}
    /\ conn = [c \in Conns |-> NoConn]
    /\ bsend = [m \in Msgs |-> "idle"]
    /\ hlog = <<>>
    /\ NoTokens

\* What a hub loop does on its own.
HubStep ==
    \/ \E i \in 1..Len(loops), c \in Conns : HubRegister(i, c)
    \/ \E i \in 1..Len(loops), c \in Conns : HubUnregister(i, c)
    \/ \E i \in 1..Len(loops), m \in Msgs : HubBroadcast(i, m)
    \/ \E i \in 1..Len(loops), c \in Conns, ok \in BOOLEAN : HubWrite(i, c, ok)
    \/ \E i \in 1..Len(loops) : HubRangeDone(i)

\* What the goroutine of a connection does on its own.
ConnStep(c) ==
    \/ ConnServe(c)
    \/ ConnFails(c)
    \/ ConnClose(c)

NextHub ==
    \/ RunHub
    \/ \E c \in Conns, ok \in BOOLEAN : HandleConnections(c, ok)
    \/ \E c \in Conns : PeerLeaves(c)
    \/ \E m \in Msgs : BroadcastUpdate(m)
    \/ \E c \in Conns : ConnStep(c)
    \/ HubStep

SpecHub == InitHub /\ [][NextHub]_vars

\* A goroutine that can take a step is scheduled; nothing is assumed about
\* requests arriving or peers leaving.
SpecHubLive ==
    /\ InitHub
    /\ [][NextHub]_vars
    /\ WF_vars(RunHub)
    /\ WF_vars(HubStep)
    /\ \A c \in Conns : WF_vars(ConnStep(c))

(* ------------------- credentials on the protected routes --------------- *)

\* The X-API-Key values requests present: none, the value stored for client
\* "0", and a value stored for nobody.
RequestKeys == {NoKey, HashAPIKey("k1"), Plain("k1")}

\* The clients row of a client id.
ClientRow(id) == CHOOSE c \in db.clients : c.client_id = id

\* CheckIPWhitelist(client, ip): an empty whitelist allows every address;
\* otherwise ip must be one of the comma-separated, trimmed entries.
CheckIPWhitelist(client, ip) ==
    client.ip_whitelist = {} \/ ip \in client.ip_whitelist

\* ValidateToken(tokenString): the parse error or "invalid token"; then the
\* blacklist lookup, which rejects the token only when First returns no error
\* (a row was found): a query that fails leaves the token accepted.
ValidateToken(t) ==
    IF t.kind # "valid" THEN [err |-> TRUE, client_id |-> <<>>]
    ELSE IF dbOk /\ blacklist[t] > 0 THEN [err |-> TRUE, client_id |-> <<>>]
    ELSE [err |-> FALSE, client_id |-> t.client_id]

\* RevokeToken(tokenString): ValidateToken's error, else
\* s.db.Create(&blacklist).Error. revoked keeps the tokens for which it
\* returned nil.
RevokeToken(t) ==
    /\ AppConfig.loaded
    /\ ~ValidateToken(t).err
    /\ dbOk
    /\ blacklist' = [blacklist EXCEPT ![t] = @ + 1]
    /\ revoked' = revoked \cup {t}
    /\ UNCHANGED <<reqs, counters>>
    /\ UNCHANGED <<subVars, topVars, regVars, rlock, wsVars>>
    /\ UNCHANGED <<now, redisOk, redisClient, started, redis, localCache, mu, pc, fr,
                   calls, ninc, pre, hist, res, prev>>

\* AuthMiddleware on a request with X-API-Key key (NoKey: none), bearer token
\* (NoToken: none) and client address ip: the API key comes first, with the
\* whitelist check when it is enabled; else the token; else 401. Status 200
\* stands for c.Next().
AuthResult(key, token, ip) ==
    IF key # NoKey
    THEN LET v == ValidateAPIKey(key) IN
         IF v.err THEN [status |-> 401, client_id |-> <<>>]
         ELSE IF AppConfig.EnableIPWhitelist /\ ~CheckIPWhitelist(ClientRow(v.client_id), ip)
         THEN [status |-> 403, client_id |-> <<>>]
         ELSE [status |-> 200, client_id |-> v.client_id]
    ELSE IF token # NoToken
    THEN LET c == ValidateToken(token) IN
         IF c.err THEN [status |-> 401, client_id |-> <<>>]
         ELSE [status |-> 200, client_id |-> c.client_id]
    ELSE [status |-> 401, client_id |-> <<>>]

\* A request to POST /api/logs through the chain main builds: AuthMiddleware
\* (an abort ends the request), RateLimitMiddleware (the client's hourly
\* counter goes up by one; over the limit the request ends with 429), then
\* RecordLog (the row is created, 500 if that fails, and the usage counters go
\* up). The cache is taken to answer.
ProtectedRequest(key, token, ip) ==
    LET a == AuthResult(key, token, ip)
        id == a.client_id
        rate == IF a.status = 200 THEN counters[id].rate + 1 ELSE 0
        status == IF a.status # 200 THEN a.status
                  ELSE IF rate > RateLimitPerHour THEN 429
                  ELSE IF dbOk THEN 202 ELSE 500
    IN
    /\ AppConfig.loaded
    /\ Len(reqs) < MaxRequests
    /\ counters' = IF a.status # 200 THEN counters
                   ELSE [counters EXCEPT ![id].rate = rate,
                                         ![id].usage = IF status = 202 THEN @ + 1 ELSE @]
    /\ reqs' = Append(reqs, [key |-> key, token |-> token, ip |-> ip,
                             auth |-> a.status, status |-> status, client_id |-> id,
                             dbOk |-> dbOk, revoked |-> token \in revoked,
                             limited |-> counters' # counters,
                             handled |-> a.status = 200 /\ rate <= RateLimitPerHour])
    /\ UNCHANGED <<blacklist, revoked>>
    /\ UNCHANGED <<subVars, topVars, regVars, rlock, wsVars>>
    /\ UNCHANGED <<now, redisOk, redisClient, started, redis, localCache, mu, pc, fr,
                   calls, ninc, pre, hist, res, prev>>

\* Two clients are registered and hold their tokens; ENABLE_IP_WHITELIST is
\* on or off.
InitAuth ==
    /\ now = StartTime
    /\ redisOk = TRUE
    /\ redisClient = [p \in Procs |-> FALSE]
    /\ started = [p \in Procs |-> TRUE]
    /\ redis = [k \in Keys |-> Absent]
    /\ pre = [k \in Keys |-> 0]
    /\ localCache = [p \in Procs |-> [k \in Keys |-> Absent]]
    /\ mu = [p \in Procs |-> NoThread]
    /\ pc = [th \in Threads |-> "idle"]
    /\ fr = [th \in Threads |-> NoFrame]
    /\ calls = 0
    /\ ninc = [p \in Procs |-> [k \in Keys |-> 0]]
    /\ hist = [i \in CounterIds |-> [k \in RateKeys |-> <<>>]]
    /\ res = NoRes
    /\ prev = NoPrev
    /\ NoMessages
    /\ NoReaders
    /\ NoSockets
    /\ HandlerIdle
    /\ \E b \in BOOLEAN :
          AppConfig = [loaded |-> TRUE, env |-> EnvUnset, ShardCount |-> 4,
                       EnableIPWhitelist |-> b]
    /\ db = [clients |-> {[client_id |-> <<48>>, api_key |-> HashAPIKey("k1"),
                           ip_whitelist |-> {"10.0.0.1"}],
                          [client_id |-> <<49>>, api_key |-> HashAPIKey("k2"),
                           ip_whitelist |-> {}]},
             shard_mappings |-> {}]
    /\ http = NoHttp
    /\ issued = {}
    /\ shardCalls = {}
    /\ NoTokens

NextAuth ==
    \/ \E t \in Tokens : RevokeToken(t)
    \/ \E key \in RequestKeys, token \in Tokens \cup {NoToken}, ip \in IPs :
          ProtectedRequest(key, token, ip)
    \/ DbFail
    \/ DbRecover

SpecAuth == InitAuth /\ [][NextAuth]_vars

\* The checks of a history whose Increment returned no error, in order.
Counted(h) == SelectSeq(h, LAMBDA r : ~r.err)

\* C2: per counter and hour bucket, the i-th admission check that was counted
\* is admitted with remaining = limit - i when i <= limit, and denied with
\* remaining 0 when i > limit; the next bucket has its own history and starts
\* again at i = 1.
C2_AdmitsExactlyFirstL ==
    \A id \in CounterIds : \A k \in RateKeys :
        LET h == Counted(hist[id][k]) IN
        \A i \in 1..Len(h) :
            /\ h[i].admit = (i <= RateLimitPerHour)
            /\ h[i].remaining = IF i <= RateLimitPerHour THEN RateLimitPerHour - i ELSE 0

\* C3: every admission check whose Increment returned an error was admitted.
C3_FailOpenOnError ==
    \A id \in CounterIds : \A k \in RateKeys :
        \A i \in 1..Len(hist[id][k]) :
            hist[id][k][i].err => hist[id][k][i].admit

\* C3 witness: a check whose Increment failed was admitted although the
\* counter already stood at the limit.
C3_Witness ==
    \E id \in CounterIds : \E k \in RateKeys :
        \E i \in 1..Len(hist[id][k]) :
            /\ hist[id][k][i].err
            /\ hist[id][k][i].admit
            /\ i > RateLimitPerHour

\* C4 as claimed: whenever the Redis server is unreachable when a check's
\* Increment runs (the process has no client since startup, or has one whose
\* call fails) and the counter already stands at the limit, the check admits.
C4_UnreachableAlwaysAdmits ==
    \A id \in CounterIds : \A k \in RateKeys :
        \A i \in 1..Len(hist[id][k]) :
            (~hist[id][k][i].reach /\ hist[id][k][i].before >= RateLimitPerHour)
                => hist[id][k][i].admit

\* C4 as amended: when the process started with Redis reachable (it holds a
\* client) and the server is unreachable when the check's Increment runs, a
\* check against a counter already at the limit is admitted.
C4_UnreachableAfterStartupAdmits ==
    \A id \in CounterIds : \A k \in RateKeys :
        \A i \in 1..Len(hist[id][k]) :
            (/\ id = "redis"
             /\ ~hist[id][k][i].reach
             /\ hist[id][k][i].before >= RateLimitPerHour) => hist[id][k][i].admit

\* C4 witness: such a check happened.
C4_Witness ==
    \E k \in RateKeys : \E i \in 1..Len(hist["redis"][k]) :
        /\ ~hist["redis"][k][i].reach
        /\ hist["redis"][k][i].before >= RateLimitPerHour
        /\ hist["redis"][k][i].admit
        /\ CountIn(redis, k) >= RateLimitPerHour

RECURSIVE SumOver(_, _)
SumOver(f, S) == IF S = {} THEN 0
                 ELSE LET x == CHOOSE y \in S : TRUE IN f[x] + SumOver(f, S \ {x})
RemoteProcs == {p \in Procs : redisClient[p]}
\* No goroutine of the processes in P is inside a call.
Quiet(P) == \A th \in Threads : ProcOf(th) \in P => pc[th] = "idle"

\* C1: with the remote tier reachable, once the concurrent Increment(k,1)
\* calls of the processes that use Redis have all returned, the Redis counter
\* equals its value before the calls plus the number of calls: none is lost.
C1_NoLostUpdateRemote ==
    Quiet(RemoteProcs) =>
        CountIn(redis, CounterKey)
            = pre[CounterKey] + SumOver([p \in Procs |-> ninc[p][CounterKey]], RemoteProcs)

\* C1 witness: two processes on Redis have completed three or more increments,
\* each at least one.
C1_Witness ==
    /\ RemoteProcs = Procs
    /\ Quiet(Procs)
    /\ \A p \in Procs : ninc[p][CounterKey] >= 1
    /\ SumOver([p \in Procs |-> ninc[p][CounterKey]], Procs) >= 3
    /\ CountIn(redis, CounterKey) >= pre[CounterKey] + 3

\* C5 as amended: in local-fallback mode the fetch-then-store runs under
\* cm.mu's write lock, so once the concurrent Increment(k,1) calls of one
\* process have returned, its local counter equals the number of calls.
C5_LocalFallbackSerialized ==
    \A p \in Procs :
        (~redisClient[p] /\ Quiet({p})) =>
            CountIn(localCache[p], CounterKey) = ninc[p][CounterKey]

\* C5 witness: one process in fallback mode has completed three increments
\* issued by two goroutines, and counts three.
C5_Witness ==
    \E p \in Procs :
        /\ ~redisClient[p]
        /\ Quiet({p})
        /\ ninc[p][CounterKey] >= 3
        /\ CountIn(localCache[p], CounterKey) >= 3

\* C5 as claimed: the fallback's fetch-then-store is not atomic across
\* concurrent callers, i.e. while one goroutine is between its fetch and its
\* store, another goroutine of the process that has called Increment can
\* enter and fetch too (the interleaving that loses an update).
C5_FallbackNotAtomic ==
    \A th1, th2 \in Threads :
        (/\ th1 # th2
         /\ ProcOf(th1) = ProcOf(th2)
         /\ ~redisClient[ProcOf(th1)]
         /\ pc[th1] = "inc_fetched"
         /\ pc[th2] = "inc_lock") => ENABLED IncrementLock(th2)

\* C6 as claimed: a Get(k) that directly follows Set(k, v, ttl) in the same
\* process, reading into v's Go type, returns found, no error and v, for
\* every value v a caller can pass to Set.
C6_RoundTripEveryValue ==
    (/\ res.op = "Get" /\ prev.op = "Set"
     /\ res.p = prev.p /\ res.k = prev.k
     /\ res.tk = TargetOf(prev.v))
        => (res.found /\ ~res.err /\ res.v = prev.v)

\* C6 as amended: the round trip holds for every value v that encoding/json
\* can encode (Get re-encodes and decodes the stored value on each read), with
\* or without a Redis client and whether or not the remote write succeeded.
C6_RoundTripEncodable ==
    (/\ res.op = "Get" /\ prev.op = "Set"
     /\ res.p = prev.p /\ res.k = prev.k
     /\ res.tk = TargetOf(prev.v)
     /\ Marshal(prev.v).ok)
        => (res.found /\ ~res.err /\ res.v = prev.v)

\* C6 witness: the round trip happened in a process that uses both tiers.
C6_Witness ==
    /\ res.op = "Get" /\ prev.op = "Set"
    /\ res.p = prev.p /\ res.k = prev.k
    /\ res.client /\ res.found /\ ~res.err
    /\ res.v = GoObj(1) /\ prev.v = GoObj(1)

\* C7: Get answers from the local tier whenever the key is live there and
\* goes to Redis only on a local miss with a client; it returns not-found
\* without error only when the key is in neither tier the process uses; on a
\* local miss with the key live in a reachable Redis it returns found, from
\* the remote tier, with the value decoded from the remote text.
C7_LocalFirstThenRemote ==
    res.op = "Get" =>
        /\ res.lhit => res.tier = "local"
        /\ res.tier = "remote" => (~res.lhit /\ res.client)
        /\ (~res.found /\ ~res.err) => (~res.lhit /\ (res.client => ~res.rhit))
        /\ (~res.lhit /\ res.client /\ res.reach /\ res.rhit) =>
              /\ res.found
              /\ res.tier = "remote"
              /\ res.err = ~Unmarshal(res.rtext, res.tk).ok
              /\ res.v = Unmarshal(res.rtext, res.tk).v

\* C7 witness: a Get missed locally and returned the value Redis held.
C7_Witness ==
    /\ res.op = "Get"
    /\ ~res.lhit /\ res.rhit
    /\ res.found /\ ~res.err /\ res.tier = "remote"
    /\ res.v = GoObj(1)

\* C8: the TTL of the local copy a backfilling Get makes is at most the TTL
\* the remote entry was written with.
C8_BackfillTTLWithinOriginal ==
    (res.op = "Get" /\ res.tier = "remote" /\ res.ottl > 0) => res.bttl <= res.ottl

\* C9: a Get that returns a value (found, no error) does so no later than
\* ttl after the Set that stored that value.
C9_NotServedAfterTTL ==
    (res.op = "Get" /\ res.found /\ ~res.err /\ res.ottl > 0)
        => now <= res.born + res.ottl

\* C10: after Set(k, v, ttl) the caller's local tier holds v under k, and a
\* failed encoding or remote write makes Set return an error (and only that
\* does) while the local entry stays.
C10_SetKeepsLocalOnRemoteFailure ==
    res.op = "Set" =>
        /\ LocalGet(localCache[res.p], res.k, now).v = res.v
        /\ res.err = (res.client /\ (~Marshal(res.v).ok \/ ~res.reach))

\* C10 witness: a Set failed at the remote write, and one failed at the
\* encoding would look the same: the error is returned and v is held locally.
C10_Witness ==
    /\ res.op = "Set"
    /\ res.err
    /\ res.client /\ ~res.reach
    /\ res.v = GoObj(1)
    /\ localCache[res.p][res.k].v = GoObj(1)

\* C11: every Delete(k) leaves k absent from the caller's local tier and,
\* when the caller's Redis call goes through, from Redis; it leaves every
\* other key of both tiers and the other processes' local tiers as they were;
\* it returns an error only when the Redis call itself fails, never because
\* k is absent; and a Delete of a key absent from both tiers changes nothing.
C11_DeleteRemovesOnlyK ==
    [][\A p \in Procs : \A k \in Keys :
          DeleteCall(p, k) =>
            /\ localCache'[p][k] = Absent
            /\ (redisClient[p] /\ redisOk) => redis'[k] = Absent
            /\ \A q \in Procs : \A j \in Keys :
                  (q # p \/ j # k) => localCache'[q][j] = localCache[q][j]
            /\ \A j \in Keys : j # k => redis'[j] = redis[j]
            /\ ~redisClient[p] => redis' = redis
            /\ res'.err = (redisClient[p] /\ ~redisOk)
            /\ (localCache[p][k] = Absent /\ redis[k] = Absent)
                  => (localCache' = localCache /\ redis' = redis)]_vars

\* C11 witness: a Delete removed a key that was live in both tiers, and a
\* second Delete of the same key by the same process then found it absent
\* from both and succeeded, the other warmed key still being in both tiers.
C11_Witness ==
    /\ res.op = "Delete" /\ prev.op = "Delete"
    /\ res.p = prev.p /\ res.k = prev.k
    /\ res.client /\ res.reach /\ ~res.err
    /\ ~res.lhit /\ ~res.rhit
    /\ localCache[res.p][res.k] = Absent /\ redis[res.k] = Absent
    /\ localCache[res.p][StatsKey] # Absent /\ redis[StatsKey] # Absent

\* C12: a Get, Set or Delete made by a process that started with Redis
\* reachable, at a time when Redis is unreachable, is served by the local
\* tier without error, and the process's IsAvailable then reports false.
C12_FallsBackToLocalAfterOutage ==
    (/\ res.op \in {"Get", "Set", "Delete"}
     /\ res.client
     /\ ~res.reach) => (~res.err /\ ~IsAvailable(res.p))

C14_OneSubscriptionPerProcess ==
    \A p \in Procs :
        /\ pubSub[p] <= 1
        /\ pubSub[p] = (IF started[p] /\ redisClient[p] THEN 1 ELSE 0)

\* C14 witness: the manager was obtained again, twice, in a process that
\* holds its one subscription.
C14_Witness ==
    /\ res.op = "getmgr" /\ prev.op = "getmgr"
    /\ res.p = prev.p
    /\ pubSub[res.p] = 1
    /\ \E q \in Procs : started[q] /\ pubSub[q] = 0

\* C15: every handling of an event leaves the tiers in a state that handling
\* the same event again would not change, and a handling that finds the
\* event's keys already absent from both tiers changes neither tier.
C15_HandlingIsIdempotent ==
    [][\A q \in Procs :
          HandleUpdateMessage(q) =>
            LET c == Head(inbox[q]).client_id IN
            /\ HandledLocal(localCache'[q], c) = localCache'[q]
            /\ (redisClient[q] /\ redisOk) => HandledRemote(redis', c) = redis'
            /\ (\A k \in DerivedKeys(c) : ~Has(localCache[q], k) /\ ~Has(redis, k))
                  => (localCache' = localCache /\ redis' = redis)]_vars

\* C15 witness: a process handled an event that removed live keys and then
\* handled a second event of the same client, finding the keys absent.
C15_Witness ==
    /\ res.op = "handle" /\ prev.op = "handle"
    /\ res.p = prev.p /\ res.k = prev.k
    /\ prev.lhit
    /\ ~res.lhit /\ ~res.rhit
    /\ res.client /\ res.reach

\* C16: a PublishUpdate made by a process without a Redis client, or while
\* Redis is unreachable, sends no message and leaves both tiers unchanged.
C16_PublishNoOpWhenUnavailable ==
    [][\A p \in Procs : \A c \in Clients :
          (PublishUpdate(p, c) /\ (~redisClient[p] \/ ~redisOk)) =>
              (inbox' = inbox /\ localCache' = localCache /\ redis' = redis)]_vars

\* C16 witness: a process without a Redis client published for a client whose
\* daily aggregate it holds locally, while another process is subscribed.
C16_Witness ==
    /\ res.op = "publish"
    /\ ~res.client
    /\ Has(localCache[res.p], res.k)
    /\ \E q \in Procs : pubSub[q] > 0
    /\ \A q \in Procs : inbox[q] = <<>>

\* C17: a GetTopClients request whose cache read found a response older than
\* the staleness threshold answers 200 with that cached response and makes no
\* query of its own before answering.
C17_StaleServedWithoutWaiting ==
    \A th \in Threads :
        (rq[th].st = "done" /\ rq[th].path = "stale") =>
            /\ rq[th].status = 200
            /\ rq[th].body = rq[th].cached
            /\ rq[th].nq = 0

\* C18: in each process at most one background refresh of the top-clients
\* key is in flight at any time.
C18_OneRefreshInFlight ==
    \A p \in Procs : Len(bg[p]) <= 1

\* C19: a GetTopClients request whose cache read missed and which answers
\* 200 has made exactly one query, and its answer carries the response that
\* the request stored through Set.
C19_MissRecomputesOnce ==
    \A th \in Threads :
        (rq[th].st = "done" /\ rq[th].path = "miss" /\ rq[th].status = 200) =>
            /\ rq[th].nq = 1
            /\ rq[th].body = rq[th].stored

\* C20: a GetTopClients request one of whose queries failed answers with an
\* error and has stored nothing through Set.
C20_FailedRecomputeReportedAndNotStored ==
    \A th \in Threads :
        (rq[th].st = "done" /\ rq[th].failed) =>
            /\ rq[th].status = 500
            /\ rq[th].stored = -1

\* C21: once the first admission check of an hour bucket has been counted, the
\* counter exists in the tier that counts (Redis, or the local tier of a
\* process without a client), holds the number of checks counted so far, and
\* keeps the expiry one hour after the Set of the first check: no later check
\* shortens or extends it.
C21_CounterKeepsHourTTL ==
    (\A th \in Threads : pc[th] = "idle") =>
        \A id \in CounterIds : \A k \in RateKeys :
            LET h == Counted(hist[id][k])
                store == IF id = "redis" THEN redis ELSE localCache[id]
            IN  h # <<>> =>
                   /\ Has(store, k)
                   /\ store[k].v.n = Len(h)
                   /\ store[k].ttl = Hour
                   /\ store[k].exp = store[k].born + Hour

\* C22: a Get of a key the caller's local tier holds is answered by the local
\* tier alone, whatever the state of Redis: no remote read (and so no
\* backfill) takes place, and the call fails only if the local value cannot be
\* encoded or decoded into the target.
C22_LocalHitIgnoresRemote ==
    (res.op = "Get" /\ res.lhit) =>
        LET m == Marshal(localCache[res.p][res.k].v) IN
        /\ res.tier = "local"
        /\ res.bttl = 0
        /\ res.found = m.ok
        /\ res.err = (~m.ok \/ ~Unmarshal(m.text, res.tk).ok)

\* A local hit served without error by a process whose Redis server is down.
C22_Witness ==
    /\ res.op = "Get" /\ res.lhit
    /\ res.client /\ ~res.reach
    /\ res.found /\ ~res.err

\* C23: with the database answering, every completed read of daily usage or
\* top clients returns 200 with an aggregate a successful query built; when a
\* cache call of the request returned an error, that aggregate comes from a
\* query the request itself ran.
C23_ReadsSurviveCacheFailure ==
    \A th \in Threads :
        rq[th].st = "done" =>
            /\ rq[th].status = 200
            /\ rq[th].body \in 1..Len(fetched)
            /\ fetched[rq[th].body].ok
            /\ rq[th].cerr => rq[th].nq >= 1

\* A read that completed with 200 although one of its cache calls failed.
C23_Witness ==
    \E th \in Threads :
        /\ rq[th].st = "done"
        /\ rq[th].cerr
        /\ rq[th].status = 200

\* The checks of a history that were admitted.
Admitted(h) == SelectSeq(h, LAMBDA r : r.admit)

\* C30: with Redis reachable and admission checks of one client running
\* concurrently within one hour bucket, at most RateLimitPerHour checks are
\* admitted, and once the checks have returned the counter is not below the
\* number of checks counted.
C30_ConcurrentChecksWithinLimit ==
    \A k \in RateKeys :
        /\ Len(Admitted(hist["redis"][k])) <= RateLimitPerHour
        /\ (\A th \in Threads : pc[th] = "idle") =>
               CountIn(redis, k) >= Len(Counted(hist["redis"][k]))

\* C25: with Redis reachable, every step of an Increment(k, 1) call made by a
\* process that holds a Redis client leaves every local tier as it was; the
\* call never enters the client-side fetch-then-store, and its one remote
\* step adds exactly 1 to the Redis counter and returns the new value, while
\* its other steps leave Redis alone.
C25_RemoteIncrementLeavesLocal ==
    [][\A th \in Threads :
          (redisClient[ProcOf(th)] /\ pc'[th] # pc[th]) =>
              /\ localCache' = localCache
              /\ pc'[th] # "inc_fetched"
              /\ IF pc[th] = "inc_locked"
                 THEN /\ CountIn(redis', fr[th].key) = CountIn(redis, fr[th].key) + 1
                      /\ fr'[th].cnt = CountIn(redis', fr[th].key)
                      /\ ~fr'[th].err
                 ELSE redis' = redis]_vars

\* Two Increment calls of a process with a Redis client have returned.
C25_Witness ==
    \E p \in RemoteProcs :
        /\ ninc[p][CounterKey] >= 2
        /\ Quiet({p})
        /\ localCache[p][CounterKey] = Absent

\* C24: every call of Set, Get, Delete, Increment and PublishUpdate that a
\* goroutine has entered returns, whether or not the Redis server ever
\* answers, and also when the goroutine has to wait for cm.mu.
C24_EveryCallReturns ==
    \A th \in LiveThreads : (pc[th] # "idle") ~> (pc[th] = "idle")

\* A goroutine waits for cm.mu while another goroutine of its process holds
\* it inside a call whose server does not answer.
C24_Witness ==
    \E th \in Threads, t2 \in Threads :
        /\ pc[th] \in {"op_lock", "inc_lock"}
        /\ mu[ProcOf(th)] = t2
        /\ pc[t2] \in {"op_locked", "inc_locked"}
        /\ redisClient[ProcOf(th)]
        /\ ~redisOk

\* C26: for a shard count n > 0, GetShardForClient returns without failing a
\* shard in 0..n-1, returns the same shard each time it is given the same id,
\* and takes every rune of the id into account: raising any one rune by 1
\* moves the result by 1 modulo n.
C26_ShardForPureAndInRange ==
    \A c \in shardCalls :
        c.n > 0 =>
            /\ ~c.panic
            /\ c.out \in 0..(c.n - 1)
            /\ \A d \in shardCalls :
                   /\ (d.id = c.id /\ d.n = c.n) => d.out = c.out
                   /\ (d.n = c.n /\ \E i \in 1..Len(c.id) : d.id = [c.id EXCEPT ![i] = @ + 1])
                          => d.out = (c.out + 1) % c.n

\* Two ids of full length that differ in their last rune were given shards
\* under a shard count of 2 or more.
C26_Witness ==
    \E c \in shardCalls, d \in shardCalls :
        /\ c.n >= 2
        /\ d.n = c.n
        /\ Len(c.id) = IdLen
        /\ d.id = [c.id EXCEPT ![IdLen] = @ + 1]

\* C27: a SHARD_COUNT that is not a positive number is rejected when the
\* process starts: the configuration is never loaded with ShardCount <= 0,
\* and GetShardForClient is never evaluated with such a count nor fails.
C27_InvalidShardCountRejected ==
    /\ AppConfig.loaded => AppConfig.ShardCount > 0
    /\ \A c \in shardCalls : c.n > 0 /\ ~c.panic
    /\ ~http.panic

\* C28: a request that presents as X-API-Key an api_key value returned by
\* POST /api/register is authenticated as the client that registration
\* created.
C28_IssuedKeyAuthenticates ==
    \A i \in issued :
        (http.op = "auth" /\ http.api_key = i.api_key) =>
            /\ http.status = 200
            /\ http.client_id = i.client_id

\* C29: over the population of all ids of IdLen hex digits, no shard of the
\* configured shard count n receives more than twice the share 1/n of the
\* ids.
C29_NoShardOverTwiceItsShare ==
    (AppConfig.loaded /\ AppConfig.ShardCount > 0) =>
        LET n == AppConfig.ShardCount IN
        \A sid \in 0..(n - 1) :
            Cardinality({id \in SampleIds : GetShardForClient(id, n).shard = sid}) * n
                <= 2 * Cardinality(SampleIds)

\* C31: with no Set, Delete, invalidation or clock step in between and the
\* server in the same state, two consecutive Get(k) calls of one process into
\* the same kind of target return the same found, error and value; in
\* particular the Get served by the local copy a backfill made returns what
\* the Get that made the backfill returned.
C31_ConsecutiveGetsAgree ==
    [][(/\ res.op = "Get" /\ res'.op = "Get" /\ calls' = calls + 1
        /\ res'.p = res.p /\ res'.k = res.k /\ res'.tk = res.tk
        /\ res.reach = redisOk)
          => (/\ res'.found = res.found
              /\ res'.err = res.err
              /\ res'.v = res.v)]_vars

\* C32: a Get(k) whose key is in the caller's local tier does not wait for a
\* Redis command that another call (Set, Delete, Increment) of the same
\* process has in flight: no goroutine is held at Get's cm.mu.RLock() with k
\* locally present while a goroutine of its process holds cm.mu inside a call
\* that issues a Redis command.
C32_LocalGetDoesNotWaitForRemote ==
    \A th \in LiveThreads, t2 \in LiveThreads :
        ~(/\ pc[th] = "op_lock" /\ fr[th].op = "Get"
          /\ GetLocalHit(ProcOf(th), fr[th].key)
          /\ mu[ProcOf(th)] = t2
          /\ \/ pc[t2] = "op_locked" /\ IssuesRemote(t2)
             \/ pc[t2] = "inc_locked" /\ RedisClientNotNil(ProcOf(t2)))

C34_EverySendIsReceived ==
    /\ \A c \in Conns :
          (wiring.runHub = 0 /\ conn[c].st = "register") ~> (c \in clients)
    /\ \A m \in Msgs :
          (wiring.runHub = 0 /\ bsend[m] = "send") ~> (bsend[m] = "returned")

\* The entries of hlog that took connection c out of h.clients.
Removes(e, c) ==
    /\ e.c = c
    /\ \/ e.ev = "write" /\ ~e.ok
       \/ e.ev = "unregister" /\ e.was

\* C35: when the hub has processed a broadcast, every client that was in the
\* set has been written the message or, its write having failed, has been
\* closed and removed; no later broadcast writes to a removed client; and
\* the unregister of a client already removed changes nothing.
C35_BroadcastWritesOrRemoves ==
    \A j \in 1..Len(hlog) :
        /\ (hlog[j].ev = "write" /\ ~hlog[j].ok)
              => (hlog[j].c \notin hlog[j].set /\ hlog[j].closed)
        /\ hlog[j].ev = "done"
              => \A c \in hlog[j].before :
                    \E i \in 1..(j - 1) :
                        /\ hlog[i].ev = "write" /\ hlog[i].c = c
                        /\ hlog[i].m = hlog[j].m
        /\ hlog[j].ev = "write"
              => \A i \in 1..(j - 1) : ~Removes(hlog[i], hlog[j].c)
        /\ (hlog[j].ev = "unregister" /\ ~hlog[j].was)
              => hlog[j].set = hlog[j].before

\* A broadcast to two clients has been processed with one write failing, a
\* later broadcast has been processed too, and the removed client's
\* unregister has been received.
C35_Witness ==
    \E i, j, k, l \in 1..Len(hlog) :
        /\ i < j /\ j < k /\ i < l
        /\ hlog[i].ev = "write" /\ ~hlog[i].ok
        /\ hlog[j].ev = "done" /\ Cardinality(hlog[j].before) = 2
        /\ hlog[j].m = hlog[i].m
        /\ hlog[k].ev = "done" /\ hlog[k].m # hlog[j].m
        /\ hlog[l].ev = "unregister" /\ hlog[l].c = hlog[i].c /\ ~hlog[l].was

\* C36: once RevokeToken(t) has returned nil, ValidateToken(t) returns an
\* error in every later state, no later request is authenticated by t, and
\* the blacklist holds one entry for t (a second RevokeToken(t) adds none).
C36_RevokedTokenStaysRejected ==
    /\ \A t \in revoked : ValidateToken(t).err /\ blacklist[t] = 1
    /\ \A i \in 1..Len(reqs) :
          (reqs[i].key = NoKey /\ reqs[i].revoked) => reqs[i].auth # 200

\* C37: with ENABLE_IP_WHITELIST on, no request from an address outside a
\* client's non-empty whitelist is authenticated as that client, whether it
\* presents an API key or a bearer token.
C37_WhitelistBindsEveryCredential ==
    \A i \in 1..Len(reqs) :
        (/\ AppConfig.EnableIPWhitelist
         /\ reqs[i].auth = 200
         /\ ClientRow(reqs[i].client_id).ip_whitelist # {})
            => reqs[i].ip \in ClientRow(reqs[i].client_id).ip_whitelist

\* The request carried an API key stored for a client, or (with no API key) a
\* token that parses and had not been revoked.
CarriedValidCredential(r) ==
    \/ r.key # NoKey /\ \E c \in db.clients : c.api_key = r.key
    \/ r.key = NoKey /\ r.token # NoToken /\ r.token.kind = "valid" /\ ~r.revoked

\* C38: a request goes past the authentication step, to the rate limiter and
\* the handler, only if it carried a valid API key or a valid, non-revoked
\* JWT; for every other request no counter is incremented.
C38_OnlyAuthenticatedRequestsCounted ==
    \A i \in 1..Len(reqs) :
        ~CarriedValidCredential(reqs[i])
            => (/\ reqs[i].auth # 200
                /\ ~reqs[i].limited
                /\ ~reqs[i].handled)

\* C39: the placeholder WarmUsageCache stores under usage:top:last24h is never
\* the body of a top-clients response: a read that finds it takes it for
\* stale and answers with the aggregate of its own query, or with an error.
C39_PlaceholderNeverReturned ==
    \A th \in Threads :
        rq[th].st = "done" =>
            /\ rq[th].status = 200 => (rq[th].body >= 1 /\ rq[th].body <= Len(fetched))
            /\ rq[th].cached = 0 =>
                  /\ rq[th].path = "stale"
                  /\ rq[th].nq >= 1
                  /\ rq[th].status \in {200, 500}

\* A read found the placeholder in the cache and answered 200 with the
\* aggregate of a query.
C39_Witness ==
    \E th \in Threads :
        /\ rq[th].st = "done" /\ rq[th].cached = 0
        /\ rq[th].status = 200 /\ rq[th].body >= 1
====
